---- MODULE Spec2Model ----
(***************************************************************************)
(* cargo-dokita: the diagnostic aggregation pipeline (src/src/lib.rs) and  *)
(* the checks it runs (config.rs, code_checks.rs, manifest.rs,             *)
(* dependency_analysis.rs, crates_io_api.rs).                              *)
(*                                                                         *)
(* Paths are sequences of components, a Vec<Finding> is a sequence of      *)
(* Finding records, an Option is the value or an explicit "none" value of  *)
(* the same shape.  A source line is the set of rule patterns its text     *)
(* matches (the regular expressions themselves are pluggable rules).       *)
(***************************************************************************)
EXTENDS Integers, Sequences, FiniteSets, TLC

VARIABLES
    entry,              \* the function under execution: analyze_project or one check
    pc,                 \* position of the orchestrator
    project_path,       \* canonicalized project root
    disk,               \* the files on disk: a sequence of [path, readable, lines]
    config,             \* Config.checks.enabled: a function code -> BOOLEAN
    config_file,        \* what the configuration file held: [status, enabled]
    rust_files,         \* the list handed to check_code_patterns
    task,               \* per-file scan task: "pending" | "scanning" | "done"
    task_line,          \* per-file scan task: next line to scan (1-based)
    task_lib,           \* per-file scan task: its is_lib_context
    per_file_findings,  \* per-file scan task: its local Vec<Finding>
    findings,           \* the orchestrator's Vec<Finding>
    cargo_manifest,     \* result of CargoManifest::parse: [ok, manifest]
    m_pc,               \* position of the first branch of rayon::join
    manifest_findings,  \* the first branch's local Vec<Finding>
    d_pc,               \* position of the second branch of rayon::join
    dep_findings,       \* the second branch's local Vec<Finding>
    metadata,           \* result of get_project_metadata: [ok, deps]
    dep_index,          \* second branch: next entry of package.dependencies
    registry,           \* registry answers received so far, one per lookup
    audit,              \* the output of the audit subprocess
    ran,                \* how many times each check has been executed
    result,             \* what analyze_project returned ("ProcessExit": it ended the process)
    exit_code,          \* process exit status
    query,              \* is_check_enabled: the code asked about
    answer              \* is_check_enabled: the value returned

vars == <<entry, pc, project_path, disk, config, config_file, rust_files, task,
          task_line, task_lib, per_file_findings, findings, cargo_manifest, m_pc,
          manifest_findings, d_pc, dep_findings, metadata, dep_index, registry,
          audit, ran, result, exit_code, query, answer>>

(***************************************************************************)
(* diagnostics.rs                                                          *)
(***************************************************************************)
Severity == {"Error", "Warning", "Note"}

NoPath == <<>>
NoLine == 0

\* Finding::new: the line number starts as None
Finding(code, message, severity, file_path) ==
    [code |-> code, message |-> message, severity |-> severity,
     file_path |-> file_path, line_number |-> NoLine]

\* Mutant: the line is counted downwards.
with_line_negated(f, line) == [f EXCEPT !.line_number = 0 - line]

\* Finding::with_line
with_line(f, line) == [f EXCEPT !.line_number = line]

\* every check code the source emits
CheckCodes ==
    {"CODE001", "CODE002", "CODE003", "CODE004", "IO001",
     "STRUCT001", "STRUCT002", "STRUCT003", "LINT001",
     "MD001", "MD002", "MD003", "MD004", "MD005", "DP001", "ED001", "ED002",
     "DP002", "API001", "AUD001", "AUD002", "AUD003", "AUD004", "SEC001"}

(***************************************************************************)
(* Sequence helpers                                                        *)
(***************************************************************************)
RECURSIVE Flatten(_)
Flatten(ss) == IF ss = <<>> THEN <<>> ELSE Head(ss) \o Flatten(Tail(ss))

RECURSIVE SelectFrom(_, _)
SelectFrom(s, keep) ==
    IF s = <<>> THEN <<>>
    ELSE IF Head(s) \in keep THEN <<Head(s)>> \o SelectFrom(Tail(s), keep)
         ELSE SelectFrom(Tail(s), keep)

Range(s) == {s[i] : i \in 1..Len(s)}

\* the codes of a finding list, in order
CodesOf(fs) == [i \in 1..Len(fs) |-> fs[i].code]

\* how many findings of a list carry the code
CountCode(fs, code) == Cardinality({i \in 1..Len(fs) : fs[i].code = code})

\* the findings of a list whose code is not c, in order
RECURSIVE WithoutCode(_, _)
WithoutCode(fs, c) ==
    IF fs = <<>> THEN <<>>
    ELSE IF Head(fs).code = c THEN WithoutCode(Tail(fs), c)
         ELSE <<Head(fs)>> \o WithoutCode(Tail(fs), c)

(***************************************************************************)
(* config.rs                                                               *)
(***************************************************************************)
\* Config::default(): an empty checks map
DefaultConfig == [c \in {} |-> TRUE]

\* Mutant: a code absent from the map counts as disabled.
is_check_enabled_default_deny(cfg, check_code) ==
    IF check_code \in DOMAIN cfg THEN cfg[check_code] ELSE FALSE

\* Config::is_check_enabled: self.checks.enabled.get(code).copied().unwrap_or(true)
is_check_enabled(cfg, check_code) ==
    IF check_code \in DOMAIN cfg THEN cfg[check_code] ELSE TRUE

\* Mutant: the entries of a file are kept although the file was rejected.
load_from_project_root_keeps_entries(file) == file.enabled

\* Config::load_from_project_root(..).unwrap_or_default(): the file's map when
\* the file is read and parsed, the default when it is absent, unreadable or
\* rejected by the parser (config.rs:73-84, lib.rs:130-146)
load_from_project_root(file) ==
    IF file.status = "ok" THEN file.enabled ELSE DefaultConfig

(***************************************************************************)
(* Paths (std::path::Path, component-wise)                                 *)
(***************************************************************************)
join(base, rel) == base \o rel

starts_with(p, base) ==
    /\ Len(base) <= Len(p)
    /\ SubSeq(p, 1, Len(base)) = base

ends_with(p, child) ==
    /\ Len(child) <= Len(p)
    /\ SubSeq(p, Len(p) - Len(child) + 1, Len(p)) = child

file_name(p) == IF p = <<>> THEN <<>> ELSE <<p[Len(p)]>>

\* the file record stored at a path, or a record that cannot be read
Missing == [path |-> <<>>, readable |-> FALSE, lines |-> <<>>]

Lookup(d, p) ==
    IF \E i \in 1..Len(d) : d[i].path = p
    THEN d[CHOOSE i \in 1..Len(d) : d[i].path = p]
    ELSE Missing

is_file(d, p) == \E i \in 1..Len(d) : d[i].path = p

is_dir(d, p) == \E i \in 1..Len(d) : starts_with(d[i].path, p) /\ d[i].path # p

exists(d, p) == is_file(d, p) \/ is_dir(d, p)

(***************************************************************************)
(* code_checks.rs: the pattern scanner                                     *)
(***************************************************************************)
\* what a line's text can match: one marker per rule regex
\*   "unwrap"  UNWRAP_REGEX        \.unwrap\(\)
\*   "expect"  EXPECT_REGEX        \.expect\s*\(
\*   "print"   PRINTLN_DBG_REGEX   (println!|dbg!)\s*\(
\*   "todo"    TODO_COMMENT_REGEX  //\s*(TODO|FIXME|XXX)
\*   "deny_warnings" / "deny_other"  DENY_LINT_REGEX with / without "warnings"
\* and what no regex looks at:
\*   "comment"  the line is a // comment, so that what it holds is text and no
\*              attribute of the crate
Markers == {"unwrap", "expect", "print", "todo", "deny_warnings", "deny_other",
            "comment"}

UNWRAP_REGEX_is_match(line) == "unwrap" \in line
EXPECT_REGEX_is_match(line) == "expect" \in line
PRINTLN_DBG_REGEX_is_match(line) == "print" \in line
TODO_COMMENT_REGEX_is_match(line) == "todo" \in line

is_library_file(file_path, project_root) ==
    /\ starts_with(file_path, join(project_root, <<"src">>))
    /\ file_path # join(project_root, <<"src", "lib.rs">>)
    /\ ~ends_with(file_path, <<"main.rs">>)
    /\ \A i \in 1..Len(file_path) : file_path[i] # "bin"
    /\ file_path # join(project_root, <<"build.rs">>)

\* Mutant: the unwrap rule no longer asks for library context.
unwrap_rule_any_context(is_lib_context, file_path, line) ==
    UNWRAP_REGEX_is_match(line) /\ ~ends_with(file_path, <<"build.rs">>)

\* guard of the CODE001 rule (code_checks.rs:129)
unwrap_rule(is_lib_context, file_path, line) ==
    is_lib_context /\ UNWRAP_REGEX_is_match(line) /\ ~ends_with(file_path, <<"build.rs">>)

\* guard of the CODE002 rule (code_checks.rs:139)
expect_rule(is_lib_context, file_path, line) ==
    is_lib_context /\ EXPECT_REGEX_is_match(line) /\ ~ends_with(file_path, <<"build.rs">>)

\* guard of the CODE003 rule (code_checks.rs:149)
print_rule(is_lib_context, file_path, line) ==
    is_lib_context /\ PRINTLN_DBG_REGEX_is_match(line) /\ ~ends_with(file_path, <<"build.rs">>)

\* guard of the CODE004 rule (code_checks.rs:162)
todo_rule(is_lib_context, file_path, line) == TODO_COMMENT_REGEX_is_match(line)

\* body of the loop over content.lines(): the findings of one line, in rule order
scan_line(file_path, is_lib_context, line_number, line) ==
       (IF unwrap_rule(is_lib_context, file_path, line)
        THEN <<with_line(Finding("CODE001", <<"unwrap in library context">>,
                                 "Warning", file_path), line_number)>>
        ELSE <<>>)
    \o (IF expect_rule(is_lib_context, file_path, line)
        THEN <<with_line(Finding("CODE002", <<"expect in library context">>,
                                 "Note", file_path), line_number)>>
        ELSE <<>>)
    \o (IF print_rule(is_lib_context, file_path, line)
        THEN <<with_line(Finding("CODE003", <<"diagnostic macro in library context">>,
                                 "Note", file_path), line_number)>>
        ELSE <<>>)
    \o (IF todo_rule(is_lib_context, file_path, line)
        THEN <<with_line(Finding("CODE004", <<"pending-work comment">>,
                                 "Note", file_path), line_number)>>
        ELSE <<>>)

\* Mutant: a read failure is reported as a Note.
io_finding_as_note(file_path) ==
    Finding("IO001", <<"Failed to read file">>, "Note", file_path)

\* the finding pushed when fs::read_to_string fails
io_finding(file_path) ==
    Finding("IO001", <<"Failed to read file">>, "Warning", file_path)

\* the closure of flat_map: all findings of one file
scan_file(file_path, project_root, d) ==
    LET f == Lookup(d, file_path)
        lib == is_library_file(file_path, project_root)
    IN  IF ~f.readable THEN <<io_finding(file_path)>>
        ELSE Flatten([n \in 1..Len(f.lines) |->
                         scan_line(file_path, lib, n, f.lines[n])])

\* check_code_patterns: par_iter().flat_map(..).collect() keeps the file order
check_code_patterns(files, project_root, d) ==
    Flatten([i \in 1..Len(files) |-> scan_file(files[i], project_root, d)])

\* collect_rust_files: the .rs files under src, tests, examples, benches
source_roots == <<"src", "tests", "examples", "benches">>

\* code_checks.rs:57-60: a file whose path has the extension "rs", that is
\* whose name ends in ".rs" after a non-empty stem (Path::extension gives
\* nothing for a name that only starts with a dot)
is_rust_file(f) ==
    /\ Len(f.path) > 0
    /\ LET name == f.path[Len(f.path)]
       IN  /\ Len(name) >= 4
           /\ SubSeq(name, Len(name) - 2, Len(name)) = ".rs"

collect_rust_files(project_root, d) ==
    Flatten([r \in 1..Len(source_roots) |->
        LET root == join(project_root, <<source_roots[r]>>)
            walk == SelectFrom(d, {f \in Range(d) :
                        starts_with(f.path, root) /\ is_rust_file(f)})
        IN  [i \in 1..Len(walk) |-> walk[i].path]])

(***************************************************************************)
(* manifest.rs: the manifest model.  An Option<T> is <<>> (None) or <<v>>  *)
(* (Some(v)); a HashMap is the sequence of its entries in iteration order. *)
(***************************************************************************)
None == <<>>
Some(v) == <<v>>
is_none(o) == o = <<>>
is_some(o) == o # <<>>

\* toml::Value, as far as the readme field is inspected; a string value holds
\* a path, kept as its components
TomlString(path) == [kind |-> "String", str |-> path, bool |-> FALSE]
TomlBoolean(b) == [kind |-> "Boolean", str |-> <<>>, bool |-> b]
TomlInteger == [kind |-> "Integer", str |-> <<>>, bool |-> FALSE]

as_str(v) == IF v.kind = "String" THEN Some(v.str) ELSE None
as_bool(v) == IF v.kind = "Boolean" THEN Some(v.bool) ELSE None

\* enum Dependency { Version(String), Detailed(DetailedDependency) }
VersionDep(v) == [kind |-> "Version", version |-> Some(v), path |-> None]
DetailedDep(version, path) == [kind |-> "Detailed", version |-> version, path |-> path]

\* struct Package; the package section being absent is some = FALSE. The
\* name is the sequence of its parts between '-' ("test-project" is
\* <<"test", "project">>, a name without '-' has one part), the form in which
\* replace('-', "_") can be computed.
Package(name, edition, description, license, readme, repository) ==
    [some |-> TRUE, name |-> name, edition |-> edition, description |-> description,
     license |-> license, readme |-> readme, repository |-> repository]

NoPackage ==
    [some |-> FALSE, name |-> <<"">>, edition |-> None, description |-> None,
     license |-> None, readme |-> None, repository |-> None]

\* struct CargoManifest
CargoManifest(package, deps, dev_deps, build_deps) ==
    [package |-> package, dependencies |-> deps, dev_dependencies |-> dev_deps,
     build_dependencies |-> build_deps]

EmptyManifest == CargoManifest(NoPackage, None, None, None)

CargoToml == <<"Cargo.toml">>

\* Mutant: only an empty string counts, an absent field does not.
missing_only_when_empty(o) == o = Some("")

\* Option<String>: is_none() || as_deref() == Some("")
missing_or_empty(o) == is_none(o) \/ o = Some("")

\* manifest.rs:86: the configuration gate of the license check
license_gate(cfg) == is_check_enabled(cfg, "MD002")

\* Mutant: every boolean is accepted as a readme value.
readme_findings_any_boolean(readme) ==
    IF is_none(readme)
    THEN <<Finding("MD004", <<"Missing 'readme' field">>, "Note", CargoToml)>>
    ELSE IF is_some(as_str(readme[1])) \/ is_some(as_bool(readme[1]))
         THEN <<>>
         ELSE <<Finding("MD004", <<"unexpected 'readme' value", readme[1].kind>>,
                        "Warning", CargoToml)>>

\* manifest.rs:104-128: the readme findings
readme_findings(readme) ==
    IF is_none(readme)
    THEN <<Finding("MD004", <<"Missing 'readme' field">>, "Note", CargoToml)>>
    ELSE IF is_some(as_str(readme[1])) \/ as_bool(readme[1]) = Some(FALSE)
         THEN <<>>
         ELSE <<Finding("MD004", <<"unexpected 'readme' value", readme[1].kind>>,
                        "Warning", CargoToml)>>

check_missing_metadata(manifest, cfg) ==
    LET package == manifest.package
    IN  IF package.some
        THEN   (IF is_check_enabled(cfg, "MD001") /\ missing_or_empty(package.description)
                THEN <<Finding("MD001", <<"Missing 'description'">>, "Warning", CargoToml)>>
                ELSE <<>>)
            \o (IF license_gate(cfg) /\ missing_or_empty(package.license)
                THEN <<Finding("MD002", <<"Missing 'license'">>, "Warning", CargoToml)>>
                ELSE <<>>)
            \o (IF is_check_enabled(cfg, "MD003") /\ missing_or_empty(package.repository)
                THEN <<Finding("MD003", <<"Missing 'repository'">>, "Note", CargoToml)>>
                ELSE <<>>)
            \o (IF is_check_enabled(cfg, "MD004")
                THEN readme_findings(package.readme)
                ELSE <<>>)
        ELSE <<Finding("MD005", <<"Missing section [package]">>, "Error", CargoToml)>>

\* Mutant: only the plain string form of a dependency is inspected.
check_deps_plain_form_only(deps, dep_type) ==
    IF is_none(deps) THEN <<>>
    ELSE LET dependencies == deps[1]
         IN  Flatten([i \in 1..Len(dependencies) |->
                 IF dependencies[i].dep.kind = "Version"
                    /\ dependencies[i].dep.version = Some("*")
                 THEN <<Finding("DP001",
                                <<"Wildcard version", dep_type, dependencies[i].name>>,
                                "Warning", CargoToml)>>
                 ELSE <<>>])

\* the closure check_deps of check_dependency_versions, for one dependency map
check_deps(deps, dep_type) ==
    IF is_none(deps) THEN <<>>
    ELSE LET dependencies == deps[1]
         IN  Flatten([i \in 1..Len(dependencies) |->
                 IF dependencies[i].dep.version = Some("*")
                 THEN <<Finding("DP001",
                                <<"Wildcard version", dep_type, dependencies[i].name>>,
                                "Warning", CargoToml)>>
                 ELSE <<>>])

check_dependency_versions(manifest, cfg) ==
    IF is_check_enabled(cfg, "DP001")
    THEN   check_deps(manifest.dependencies, "runtime")
        \o check_deps(manifest.dev_dependencies, "dev")
        \o check_deps(manifest.build_dependencies, "build")
    ELSE <<>>

LATEST_STABLE_EDITION == "2024"

\* Mutant: the missing edition is reported whether or not there is a package
\* section.
check_rust_edition_without_package(manifest) ==
    IF is_none(manifest.package.edition)
    THEN <<Finding("ED002", <<"no edition, implicitly 2015", LATEST_STABLE_EDITION>>,
                   "Note", CargoToml)>>
    ELSE <<>>

check_rust_edition(manifest) ==
    LET package == manifest.package
    IN  IF ~package.some THEN <<>>
        ELSE IF is_none(package.edition)
             THEN <<Finding("ED002", <<"no edition, implicitly 2015", LATEST_STABLE_EDITION>>,
                            "Note", CargoToml)>>
             ELSE IF package.edition[1] # LATEST_STABLE_EDITION
                  THEN <<Finding("ED001", <<"edition", package.edition[1],
                                            LATEST_STABLE_EDITION>>, "Note", CargoToml)>>
                  ELSE <<>>

(***************************************************************************)
(* code_checks.rs: project structure and lint configuration                *)
(***************************************************************************)
\* format!("{}.rs", p.name.replace('-', "_")) (code_checks.rs:197-198): the
\* parts of the name, which '-' separated, are joined by '_' instead, and
\* ".rs" is appended
default_lib_file(name) ==
    LET RECURSIVE joined(_)
        joined(parts) ==
            IF Len(parts) = 1 THEN parts[1]
            ELSE parts[1] \o "_" \o joined(Tail(parts))
    IN  joined(name) \o ".rs"

\* the names probed for a license file: each listed name, its upper case and
\* its lower case
license_files ==
    {"LICENSE", "LICENSE.txt", "LICENSE-MIT", "LICENSE-APACHE", "COPYING", "UNLICENSE",
     "LICENSE.TXT", "license", "license.txt", "license-mit", "license-apache",
     "copying", "unlicense"}

\* code_checks.rs:226-238
readme_specified_and_false_or_exists(project_root, package, d) ==
    /\ package.some
    /\ is_some(package.readme)
    /\ LET r_val == package.readme[1]
       IN  IF is_some(as_bool(r_val)) THEN ~as_bool(r_val)[1]
           ELSE IF is_some(as_str(r_val))
                THEN is_file(d, join(project_root, as_str(r_val)[1]))
                ELSE FALSE

\* check_project_structure(project_root, Some(manifest))
check_project_structure(project_root, manifest, d) ==
    LET package == manifest.package
        has_lib_rs == is_file(d, join(project_root, <<"src", "lib.rs">>))
        has_main_rs == is_file(d, join(project_root, <<"src", "main.rs">>))
        has_bin_dir == is_dir(d, join(project_root, <<"src", "bin">>))
        is_likely_library ==
            /\ package.some
            /\ \/ exists(d, join(project_root, <<"src", default_lib_file(package.name)>>))
               \/ has_lib_rs
        readme_path_md == join(project_root, <<"README.md">>)
        readme_path_rst == join(project_root, <<"README.rst">>)
        has_license_file ==
            \E name \in license_files : is_file(d, join(project_root, <<name>>))
        license_file_specified ==
            package.some /\ is_some(package.license) /\ package.license # Some("")
    IN  IF ~package.some THEN <<>>
        ELSE   (IF ~is_likely_library /\ ~has_main_rs /\ ~has_bin_dir
                THEN <<Finding("STRUCT001", <<"no src/lib.rs, src/main.rs or src/bin">>,
                               "Warning", CargoToml)>>
                ELSE <<>>)
            \o (IF /\ ~is_file(d, readme_path_md)
                   /\ ~is_file(d, readme_path_rst)
                   /\ ~readme_specified_and_false_or_exists(project_root, package, d)
                THEN <<Finding("STRUCT002", <<"Missing README.md">>, "Note",
                               readme_path_md)>>
                ELSE <<>>)
            \o (IF /\ ~has_license_file
                   /\ (~license_file_specified \/ ~package.some \/ is_none(package.license))
                THEN <<Finding("STRUCT003", <<"Missing LICENSE file">>, "Warning",
                               <<"Project Root">>)>>
                ELSE <<>>)

\* the lints a file denies: does some #![deny(..)] of the file list "warnings"
denies_warnings(f) == \E n \in 1..Len(f.lines) : "deny_warnings" \in f.lines[n]

\* the body of the loop of check_missing_denied_lints for one file
lint_findings_for(file_path, cfg, d) ==
    IF ~exists(d, file_path) THEN <<>>
    ELSE IF ~is_check_enabled(cfg, "LINT001") THEN <<>>
    ELSE LET f == Lookup(d, file_path)
         IN  IF ~f.readable THEN <<>>
             ELSE IF denies_warnings(f) THEN <<>>
             ELSE <<Finding("LINT001", <<"Consider adding deny", "warnings">>
                                          \o file_name(file_path),
                            "Note", file_path)>>

check_missing_denied_lints(project_root, cfg, d) ==
       lint_findings_for(join(project_root, <<"src", "lib.rs">>), cfg, d)
    \o lint_findings_for(join(project_root, <<"src", "main.rs">>), cfg, d)

(***************************************************************************)
(* dependency_analysis.rs and crates_io_api.rs                             *)
(***************************************************************************)
\* semver::Version::parse on the version strings that occur: the parsed
\* (major, minor, patch) or an error
VersionStrings == {"1.0.0", "1.2.3", "1.9.0", "1.10.0", "not-a-version"}

Version_parse(s) ==
    CASE s = "1.0.0" -> Some(<<1, 0, 0>>)
      [] s = "1.2.3" -> Some(<<1, 2, 3>>)
      [] s = "1.9.0" -> Some(<<1, 9, 0>>)
      [] s = "1.10.0" -> Some(<<1, 10, 0>>)
      [] OTHER -> None

\* Mutant: the components are compared as strings of digits ("10" < "9").
version_lt_lexical(a, b) ==
    LET key(n) == IF n < 10 THEN 10 * n ELSE n
    IN  \/ key(a[1]) < key(b[1])
        \/ a[1] = b[1] /\ key(a[2]) < key(b[2])
        \/ a[1] = b[1] /\ a[2] = b[2] /\ key(a[3]) < key(b[3])

\* Version's Ord: major, then minor, then patch, numerically
version_lt(a, b) ==
    \/ a[1] < b[1]
    \/ a[1] = b[1] /\ a[2] < b[2]
    \/ a[1] = b[1] /\ a[2] = b[2] /\ a[3] < b[3]

\* get_latest_versions_from_crates_io: Ok(max_version) when the request is
\* sent, the status is a success and the body parses; Err otherwise
\* a response is [transport |-> BOOLEAN, status |-> Int, json |-> BOOLEAN,
\*                max_version |-> STRING]
Response(transport, status, json, max_version) ==
    [transport |-> transport, status |-> status, json |-> json,
     max_version |-> max_version]

is_success(status) == status >= 200 /\ status <= 299

get_latest_versions_from_crates_io(resp) ==
    IF ~resp.transport THEN [ok |-> FALSE, value |-> "send failed"]
    ELSE IF ~is_success(resp.status) THEN [ok |-> FALSE, value |-> "status"]
    ELSE IF ~resp.json THEN [ok |-> FALSE, value |-> "bad json"]
    ELSE [ok |-> TRUE, value |-> resp.max_version]

\* cargo_metadata: a declared dependency of a member (Package.dependencies)
\* and a resolved link of its node (Node.deps: the name is the library name of
\* the dependency, hyphens turned into underscores)
Declared(name, source) == [name |-> name, source |-> source]
Link(name, version) == [name |-> name, version |-> version]
Member(declared, links) == [declared |-> declared, links |-> links]

\* dep.source.is_none() || !dep.source.as_ref().unwrap().is_crates_io()
not_from_crates_io(dep) == is_none(dep.source) \/ dep.source[1] # "crates.io"

\* p_node.deps.iter().find(|d| d.name.to_string() == *dep_name)
find_link(links, dep_name) ==
    IF \E i \in 1..Len(links) : links[i].name = dep_name
    THEN Some(links[CHOOSE i \in 1..Len(links) :
                 /\ links[i].name = dep_name
                 /\ \A j \in 1..(i - 1) : links[j].name # dep_name])
    ELSE None

\* is the registry asked about this declared dependency of this member
is_looked_up(member, dep) ==
    ~not_from_crates_io(dep) /\ is_some(find_link(member.links, dep.name))

\* dependency_analysis.rs:53-85: the findings of one lookup
lookup_findings(dep_name, current_version_str, resp) ==
    LET latest == get_latest_versions_from_crates_io(resp)
    IN  IF latest.ok
        THEN LET current_ver == Version_parse(current_version_str)
                 latest_ver == Version_parse(latest.value)
             IN  IF is_some(current_ver) /\ is_some(latest_ver)
                 THEN IF version_lt(current_ver[1], latest_ver[1])
                      THEN <<Finding("DP002", <<"outdated", dep_name,
                                                current_version_str, latest.value>>,
                                     "Note", CargoToml)>>
                      ELSE <<>>
                 ELSE <<>>
        ELSE <<Finding("API001", <<"Failed to fetch latest version", dep_name,
                                   latest.value>>, "Warning", NoPath)>>

\* the output of `cargo audit --json --quiet`:
\*   spawned: the command could be started; success: output.status.success();
\*   stdout: "empty" | "garbage" | "report" (a document of the AuditReport
\*   schema, listing vulns); stderr_empty
AuditOutput(spawned, success, stdout, vulns, stderr_empty) ==
    [spawned |-> spawned, success |-> success, stdout |-> stdout, vulns |-> vulns,
     stderr_empty |-> stderr_empty]

Vulnerability(package, id, title, patched) ==
    [package |-> package, id |-> id, title |-> title, patched |-> patched]

CargoLock(project_root) == join(project_root, <<"Cargo.lock">>)

\* Mutant: the entries are reported only when the subprocess exited with
\* success.
vulnerability_findings_on_success_only(project_root, out) ==
    IF out.success
    THEN [i \in 1..Len(out.vulns) |->
             Finding("SEC001", <<"Vulnerability found", out.vulns[i].package,
                                 out.vulns[i].title, out.vulns[i].id>>
                               \o out.vulns[i].patched,
                     "Error", CargoLock(project_root))]
    ELSE <<>>

\* dependency_analysis.rs:165-178: one SEC001 per entry of the report
vulnerability_findings(project_root, out) ==
    [i \in 1..Len(out.vulns) |->
        Finding("SEC001", <<"Vulnerability found", out.vulns[i].package,
                            out.vulns[i].title, out.vulns[i].id>>
                          \o out.vulns[i].patched,
                "Error", CargoLock(project_root))]

\* Mutant: a report without entries is taken at its word, whatever the exit
\* status.
indicates_issue_never(out) == FALSE

\* dependency_analysis.rs:179: the condition of the AUD002 arm
indicates_issue(out) == ~out.success /\ out.stdout # "empty"

\* Mutant: a command that cannot be started leaves no trace.
audit_unavailable_silent(project_root) == <<>>

\* dependency_analysis.rs:204-212: the command could not be started
audit_unavailable(project_root) ==
    <<Finding("AUD004", <<"Failed to execute 'cargo audit'", "Is it installed and in PATH?">>,
              "Warning", NoPath)>>

\* dependency_analysis.rs:95-216
check_vulnerability(project_root, out) ==
    IF ~out.spawned
    THEN audit_unavailable(project_root)
    ELSE IF ~out.success /\ out.stdout = "empty" /\ ~out.stderr_empty
    THEN <<Finding("AUD001", <<"cargo-audit execution failed">>, "Warning",
                   CargoLock(project_root))>>
    ELSE IF out.stdout = "report"
    THEN IF out.vulns # <<>>
         THEN vulnerability_findings(project_root, out)
         ELSE IF indicates_issue(out)
              THEN <<Finding("AUD002", <<"issue indicated but no vulnerabilities">>,
                             "Warning", CargoLock(project_root))>>
              ELSE <<>>
    ELSE IF ~out.success /\ out.stdout # "empty"
         THEN <<Finding("AUD003", <<"Failed to parse cargo-audit JSON output">>,
                        "Warning", CargoLock(project_root))>>
         ELSE <<>>

(***************************************************************************)
(* The checks the orchestrator runs, and the values variables hold before  *)
(* the step that sets them                                                 *)
(***************************************************************************)
Checks == {"file_collection", "pattern_scan", "project_structure",
           "manifest_checks", "dependency_metadata", "registry_freshness",
           "vulnerability_scan", "lint_configuration"}

NoneRan == [c \in Checks |-> 0]

NoConfigFile == [status |-> "absent", enabled |-> DefaultConfig]

NotExited == -1

NotParsed == [ok |-> FALSE, manifest |-> EmptyManifest]

NoMetadata == [ok |-> FALSE, members |-> <<>>]

NoAudit == AuditOutput(FALSE, FALSE, "empty", <<>>, TRUE)

\* Mutant: only an Error fails the run.
is_blocking_error_only(severity) == severity = "Error"

\* Severity::Error | Severity::Warning (lib.rs:265)
is_blocking(severity) == severity \in {"Error", "Warning"}

has_blocking(fs) == \E i \in 1..Len(fs) : is_blocking(fs[i].severity)

(***************************************************************************)
(* analyze_project (lib.rs:118-271; analyze_project_for_test is the same   *)
(* pipeline returning the findings)                                        *)
(***************************************************************************)
PipelineRoot == <<"home", "proj">>

File(root, rel, readable, lines) ==
    [path |-> join(root, rel), readable |-> readable, lines |-> lines]

\* the projects the pipeline is run on
PipelineDisks ==
    { \* an application with lint directive, README and LICENSE
      << File(PipelineRoot, <<"src", "main.rs">>, TRUE, <<{"deny_warnings"}, {"print"}>>),
         File(PipelineRoot, <<"README.md">>, TRUE, <<>>),
         File(PipelineRoot, <<"LICENSE">>, TRUE, <<>>) >>,
      \* a library with a module
      << File(PipelineRoot, <<"src", "lib.rs">>, TRUE, <<{"todo"}>>),
         File(PipelineRoot, <<"src", "module.rs">>, TRUE,
              <<{"unwrap", "todo"}, {"expect"}>>) >>,
      \* no file at all
      << >>,
      \* a module that cannot be read, and a test
      << File(PipelineRoot, <<"src", "module.rs">>, FALSE, <<>>),
         File(PipelineRoot, <<"tests", "it.rs">>, TRUE, <<{"todo"}>>),
         File(PipelineRoot, <<"README.md">>, TRUE, <<>>),
         File(PipelineRoot, <<"LICENSE">>, TRUE, <<>>) >>,
      \* a library in the file named after the package
      << File(PipelineRoot, <<"src", "test_project.rs">>, TRUE, <<{"unwrap"}>>) >> }

\* the check codes configuration files mention
ConfigKeys == {"MD001", "MD002", "MD003", "MD004", "DP001", "LINT001",
               "CODE004", "STRUCT003"}

SingleEntry(k, b) == [c \in {k} |-> b]

PipelineConfigs ==
    {DefaultConfig}
    \cup {SingleEntry(k, b) : k \in ConfigKeys, b \in BOOLEAN}
    \cup {[c \in {"MD001", "MD002"} |-> FALSE],
          [c \in {"LINT001", "DP001"} |-> c = "DP001"]}

ConfigFiles ==
    {NoConfigFile}
    \cup {[status |-> "ok", enabled |-> cfg] : cfg \in PipelineConfigs}
    \cup {[status |-> "rejected", enabled |-> SingleEntry("MD001", FALSE)],
          [status |-> "unreadable", enabled |-> SingleEntry("DP001", FALSE)]}

Entry(name, dep) == [name |-> name, dep |-> dep]

\* what CargoManifest::parse returns
ManifestResults ==
    { NotParsed,
      \* a virtual manifest
      [ok |-> TRUE, manifest |-> EmptyManifest],
      \* complete metadata
      [ok |-> TRUE, manifest |->
          CargoManifest(Package(<<"test", "project">>, Some("2024"), Some("A project"),
                                Some("MIT"), Some(TomlString(<<"README.md">>)),
                                Some("https://example.org/repo")),
                        Some(<<Entry("serde", VersionDep("1.0"))>>), None, None)],
      \* name and version only, a wildcard and a local dependency
      [ok |-> TRUE, manifest |->
          CargoManifest(Package(<<"test", "project">>, None, None, None, None, None),
                        Some(<<Entry("serde", VersionDep("*"))>>),
                        Some(<<Entry("local", DetailedDep(None, Some("../local")))>>),
                        None)],
      \* empty description, malformed readme, older edition
      [ok |-> TRUE, manifest |->
          CargoManifest(Package(<<"test", "project">>, Some("2021"), Some(""), Some("MIT"),
                                Some(TomlBoolean(TRUE)), None),
                        None, None, None)] }

\* what get_project_metadata returns
MetadataResults ==
    { NoMetadata,
      [ok |-> TRUE, members |-> <<Member(<<>>, <<>>)>>],
      [ok |-> TRUE, members |->
          <<Member(<<Declared("serde", Some("crates.io")), Declared("local", None)>>,
                   <<Link("serde", "1.0.0"), Link("local", "1.0.0")>>)>>],
      [ok |-> TRUE, members |->
          <<Member(<<Declared("serde", Some("crates.io")),
                     Declared("tokio-util", Some("crates.io")),
                     Declared("rand", Some("crates.io"))>>,
                   <<Link("serde", "1.0.0"), Link("tokio_util", "1.0.0"),
                     Link("rand", "1.9.0")>>)>>] }

\* what the registry answers
PipelineResponses ==
    { Response(TRUE, 200, TRUE, "1.10.0"),
      Response(TRUE, 200, TRUE, "not-a-version"),
      Response(TRUE, 404, FALSE, "") }

\* what the audit subprocess produces
AuditOutputs ==
    { AuditOutput(FALSE, FALSE, "empty", <<>>, TRUE),
      AuditOutput(TRUE, TRUE, "report", <<>>, TRUE),
      AuditOutput(TRUE, FALSE, "report",
                  <<Vulnerability("time", "RUSTSEC-2020-0071", "Potential segfault",
                                  <<">=0.2.23">>)>>, TRUE),
      AuditOutput(TRUE, FALSE, "report", <<>>, FALSE),
      AuditOutput(TRUE, FALSE, "empty", <<>>, FALSE),
      AuditOutput(TRUE, FALSE, "empty", <<>>, TRUE),
      AuditOutput(TRUE, FALSE, "garbage", <<>>, FALSE),
      AuditOutput(TRUE, TRUE, "garbage", <<>>, TRUE) }

\* the values of the variables a step sets later
NothingYet ==
    /\ config_file = NoConfigFile
    /\ findings = <<>>
    /\ cargo_manifest = NotParsed
    /\ m_pc = "idle"
    /\ manifest_findings = <<>>
    /\ d_pc = "idle"
    /\ dep_findings = <<>>
    /\ metadata = NoMetadata
    /\ dep_index = 0
    /\ registry = <<>>
    /\ audit = NoAudit
    /\ result = "none"
    /\ exit_code = NotExited
    /\ query = ""
    /\ answer = TRUE

NoScan ==
    /\ rust_files = <<>>
    /\ task = <<>>
    /\ task_line = <<>>
    /\ task_lib = <<>>
    /\ per_file_findings = <<>>

Init ==
    /\ entry = "analyze_project"
    /\ pc = "Init"
    /\ project_path = <<>>
    /\ disk = <<>>
    /\ config = DefaultConfig
    /\ ran = NoneRan
    /\ NoScan
    /\ NothingYet

(***************************************************************************)
(* check_code_patterns as parallel per-file tasks (rayon par_iter): each   *)
(* task owns per_file_findings[i]; the results are concatenated in file    *)
(* order once every task is done.                                          *)
(***************************************************************************)
AllPending(files) == [i \in 1..Len(files) |-> "pending"]
AllFirstLine(files) == [i \in 1..Len(files) |-> 1]
AllNotLib(files) == [i \in 1..Len(files) |-> FALSE]
AllEmpty(files) == [i \in 1..Len(files) |-> <<>>]

OrchestratorUnchanged ==
    UNCHANGED <<entry, project_path, disk, config, config_file, rust_files,
                cargo_manifest, m_pc, manifest_findings, d_pc, dep_findings,
                metadata, dep_index, registry, audit, result, exit_code,
                query, answer>>

\* code_checks.rs:98-122: classify the file, read it; a read failure ends the task
ScanStart(i) ==
    /\ pc = "Scanning"
    /\ task[i] = "pending"
    /\ LET file_path == rust_files[i]
           f == Lookup(disk, file_path)
       IN  /\ task_lib' = [task_lib EXCEPT ![i] = is_library_file(file_path, project_path)]
           /\ IF ~f.readable
              THEN /\ per_file_findings' =
                        [per_file_findings EXCEPT ![i] = <<io_finding(file_path)>>]
                   /\ task' = [task EXCEPT ![i] = "done"]
              ELSE /\ per_file_findings' = per_file_findings
                   /\ task' = [task EXCEPT ![i] =
                                 IF Len(f.lines) = 0 THEN "done" ELSE "scanning"]
    /\ UNCHANGED <<pc, task_line, findings, ran>>
    /\ OrchestratorUnchanged

\* code_checks.rs:125-171: one iteration of the loop over the lines
ScanLine(i) ==
    /\ pc = "Scanning"
    /\ task[i] = "scanning"
    /\ LET file_path == rust_files[i]
           f == Lookup(disk, file_path)
           n == task_line[i]
       IN  /\ per_file_findings' =
                [per_file_findings EXCEPT ![i] =
                    @ \o scan_line(file_path, task_lib[i], n, f.lines[n])]
           /\ IF n = Len(f.lines)
              THEN task' = [task EXCEPT ![i] = "done"] /\ task_line' = task_line
              ELSE task' = task /\ task_line' = [task_line EXCEPT ![i] = n + 1]
    /\ UNCHANGED <<pc, task_lib, findings, ran>>
    /\ OrchestratorUnchanged

\* Mutant: the results are collected as soon as the first task has returned.
first_done(tasks) == \A i \in DOMAIN tasks : i = 1 => tasks[i] = "done"

\* code_checks.rs:94-176: collect() returns once every task of the parallel
\* iterator has returned
all_done(tasks) == \A i \in 1..Len(tasks) : tasks[i] = "done"

\* code_checks.rs:174-176 and lib.rs:149: collect() and findings.extend(..)
ScanCollect ==
    /\ pc = "Scanning"
    /\ all_done(task)
    /\ findings' = findings \o Flatten(per_file_findings)
    /\ pc' = IF entry = "check_code_patterns" THEN "Returned" ELSE "CheckProject"
    /\ UNCHANGED <<task, task_line, task_lib, per_file_findings, ran>>
    /\ OrchestratorUnchanged

(***************************************************************************)
(* The orchestrator's steps                                                *)
(***************************************************************************)
scanVars == <<rust_files, task, task_line, task_lib, per_file_findings>>
branchVars == <<m_pc, manifest_findings, d_pc, dep_findings, metadata, dep_index,
                registry, audit>>
unitVars == <<query, answer>>

\* how often each check has been made, after one more of the given check
Count(check) == [ran EXCEPT ![check] = @ + 1]

\* lib.rs:120-126: fs::canonicalize
Canonicalize ==
    /\ entry = "analyze_project"
    /\ pc = "Init"
    /\ \/ /\ result' = "UnresolvableProjectPath"
          /\ exit_code' = 1
          /\ pc' = "Aborted"
          /\ UNCHANGED <<project_path, disk>>
       \/ /\ \E d \in PipelineDisks : disk' = d
          /\ project_path' = PipelineRoot
          /\ pc' = "LoadConfig"
          /\ UNCHANGED <<result, exit_code>>
    /\ UNCHANGED <<entry, config, config_file, findings, cargo_manifest, ran>>
    /\ UNCHANGED <<scanVars, branchVars, unitVars>>

\* lib.rs:130-146
LoadConfig ==
    /\ pc = "LoadConfig"
    /\ \E file \in ConfigFiles :
          /\ config_file' = file
          /\ config' = load_from_project_root(file)
    /\ pc' = "Collecting"
    /\ UNCHANGED <<entry, project_path, disk, findings, cargo_manifest, ran, result,
                   exit_code>>
    /\ UNCHANGED <<scanVars, branchVars, unitVars>>

\* lib.rs:148-149: collect_rust_files, and check_code_patterns starts its tasks
CollectFiles ==
    /\ pc = "Collecting"
    /\ LET files == collect_rust_files(project_path, disk)
       IN  /\ rust_files' = files
           /\ task' = AllPending(files)
           /\ task_line' = AllFirstLine(files)
           /\ task_lib' = AllNotLib(files)
           /\ per_file_findings' = AllEmpty(files)
    /\ ran' = [ran EXCEPT !["file_collection"] = @ + 1, !["pattern_scan"] = @ + 1]
    /\ pc' = "Scanning"
    /\ UNCHANGED <<entry, project_path, disk, config, config_file, findings,
                   cargo_manifest, result, exit_code>>
    /\ UNCHANGED <<branchVars, unitVars>>

\* Mutant: the missing manifest is noted but the run goes on.
after_missing_manifest_continue == "Parsing"

\* lib.rs:331-333: return Err(MyError::NotRustProject)
after_missing_manifest == "Aborted"

\* lib.rs:151-154: is_rust_project; the manifest file is there or it is not
CheckProject ==
    /\ pc = "CheckProject"
    /\ \/ /\ result' = "NotRustProject"
          /\ exit_code' = 1
          /\ pc' = after_missing_manifest
       \/ /\ pc' = "Parsing"
          /\ UNCHANGED <<result, exit_code>>
    /\ UNCHANGED <<entry, project_path, disk, config, config_file, findings,
                   cargo_manifest, ran>>
    /\ UNCHANGED <<scanVars, branchVars, unitVars>>

\* lib.rs:156-165: CargoManifest::parse, then check_project_structure if it parsed
ParseManifest ==
    /\ pc = "Parsing"
    /\ \E m \in ManifestResults :
          /\ cargo_manifest' = m
          /\ IF m.ok
             THEN /\ findings' = findings \o
                        check_project_structure(project_path, m.manifest, disk)
                  /\ ran' = Count("project_structure")
             ELSE UNCHANGED <<findings, ran>>
    /\ pc' = "Validating"
    /\ m_pc' = "start"
    /\ d_pc' = "start"
    /\ UNCHANGED <<entry, project_path, disk, config, config_file, result, exit_code,
                   manifest_findings, dep_findings, metadata, dep_index, registry, audit>>
    /\ UNCHANGED <<scanVars, unitVars>>

FirstBranchUnchanged ==
    /\ UNCHANGED <<entry, pc, project_path, disk, config, config_file, findings,
                   cargo_manifest, result, exit_code, d_pc, dep_findings, metadata,
                   dep_index, registry, audit>>
    /\ UNCHANGED <<scanVars, unitVars>>

\* lib.rs:170-179, first closure of rayon::join: the manifest did not parse
ManifestSkipped ==
    /\ pc = "Validating"
    /\ m_pc = "start"
    /\ ~cargo_manifest.ok
    /\ m_pc' = "done"
    /\ UNCHANGED <<manifest_findings, ran>>
    /\ FirstBranchUnchanged

\* lib.rs:174
MissingMetadata ==
    /\ pc = "Validating"
    /\ m_pc = "start"
    /\ cargo_manifest.ok
    /\ manifest_findings' =
          manifest_findings \o check_missing_metadata(cargo_manifest.manifest, config)
    /\ ran' = Count("manifest_checks")
    /\ m_pc' = "versions"
    /\ FirstBranchUnchanged

\* lib.rs:175
DependencyVersions ==
    /\ pc = "Validating"
    /\ m_pc = "versions"
    /\ manifest_findings' =
          manifest_findings \o check_dependency_versions(cargo_manifest.manifest, config)
    /\ m_pc' = "edition"
    /\ UNCHANGED ran
    /\ FirstBranchUnchanged

\* lib.rs:176
RustEdition ==
    /\ pc = "Validating"
    /\ m_pc = "edition"
    /\ manifest_findings' =
          manifest_findings \o check_rust_edition(cargo_manifest.manifest)
    /\ m_pc' = "done"
    /\ UNCHANGED ran
    /\ FirstBranchUnchanged

SecondBranchUnchanged ==
    /\ UNCHANGED <<entry, pc, project_path, disk, config, config_file, findings,
                   cargo_manifest, result, exit_code, m_pc, manifest_findings>>
    /\ UNCHANGED <<scanVars, unitVars>>

\* the declared dependencies of every workspace member, in iteration order
DeclaredDeps(md) ==
    Flatten([mi \in 1..Len(md.members) |->
        [di \in 1..Len(md.members[mi].declared) |->
            [member |-> md.members[mi], dep |-> md.members[mi].declared[di]]]])

\* lib.rs:182-193: where the second closure goes when get_project_metadata fails
after_metadata_failure == "audit"

\* lib.rs:182-191, second closure of rayon::join: get_project_metadata
ProjectMetadata ==
    /\ pc = "Validating"
    /\ d_pc = "start"
    /\ \E md \in MetadataResults :
          /\ metadata' = md
          /\ IF ~md.ok
             THEN /\ d_pc' = after_metadata_failure
                  /\ ran' = Count("dependency_metadata")
                  /\ dep_index' = dep_index
             ELSE /\ d_pc' = IF DeclaredDeps(md) = <<>> THEN "audit" ELSE "outdated"
                  /\ ran' = [ran EXCEPT !["dependency_metadata"] = @ + 1,
                                        !["registry_freshness"] = @ + 1]
                  /\ dep_index' = 1
    /\ UNCHANGED <<dep_findings, registry, audit>>
    /\ SecondBranchUnchanged

\* dependency_analysis.rs:37-89: one iteration of the loop over the declared
\* dependencies; a registry-sourced dependency with a resolved link is looked up
\* the registry answering from the given responses; a lookup is recorded with
\* the position of its dependency in the iteration
OutdatedDependencyFrom(responses) ==
    /\ pc = "Validating"
    /\ d_pc = "outdated"
    /\ LET deps == DeclaredDeps(metadata)
           e == deps[dep_index]
       IN  /\ IF is_looked_up(e.member, e.dep)
              THEN \E resp \in responses :
                      /\ registry' = Append(registry, [name |-> e.dep.name, resp |-> resp,
                                                       index |-> dep_index])
                      /\ dep_findings' = dep_findings \o
                            lookup_findings(e.dep.name,
                                            find_link(e.member.links, e.dep.name)[1].version,
                                            resp)
              ELSE UNCHANGED <<registry, dep_findings>>
           /\ IF dep_index = Len(deps)
              THEN d_pc' = "audit" /\ dep_index' = dep_index
              ELSE d_pc' = d_pc /\ dep_index' = dep_index + 1
    /\ UNCHANGED <<metadata, audit, ran>>
    /\ SecondBranchUnchanged

OutdatedDependency == OutdatedDependencyFrom(PipelineResponses)

\* lib.rs:192-193: check_vulnerability
\* the audit subprocess producing one of the given outputs
VulnerabilitiesFrom(outputs) ==
    /\ pc = "Validating"
    /\ d_pc = "audit"
    /\ \E out \in outputs :
          /\ audit' = out
          /\ dep_findings' = dep_findings \o check_vulnerability(project_path, out)
    /\ ran' = Count("vulnerability_scan")
    /\ d_pc' = "done"
    /\ UNCHANGED <<metadata, dep_index, registry>>
    /\ SecondBranchUnchanged

Vulnerabilities == VulnerabilitiesFrom(AuditOutputs)

\* Mutant: extending replaces what the collection held.
extend_replacing(fs, more) == more

\* Vec::extend (lib.rs:198-199)
extend(fs, more) == fs \o more

\* Mutant: the join returns when its first closure has returned.
join_returned_first_only(first, second) == first = "done"

\* rayon::join returns when both closures have returned (lib.rs:172-196)
join_returned(first, second) == first = "done" /\ second = "done"

\* lib.rs:196-199: rayon::join returns; both result lists are appended
Merge ==
    /\ pc = "Validating"
    /\ join_returned(m_pc, d_pc)
    /\ findings' = extend(extend(findings, manifest_findings), dep_findings)
    /\ pc' = "Merging"
    /\ UNCHANGED <<entry, project_path, disk, config, config_file, cargo_manifest, ran,
                   result, exit_code>>
    /\ UNCHANGED <<scanVars, branchVars, unitVars>>

\* lib.rs:201-204: check_missing_denied_lints
DeniedLints ==
    /\ pc = "Merging"
    /\ findings' = findings \o check_missing_denied_lints(project_path, config, disk)
    /\ ran' = Count("lint_configuration")
    /\ pc' = "Reporting"
    /\ UNCHANGED <<entry, project_path, disk, config, config_file, cargo_manifest,
                   result, exit_code>>
    /\ UNCHANGED <<scanVars, branchVars, unitVars>>

\* lib.rs:263-270: exit status 1 if a finding is an Error or a Warning
exit_status(fs) == IF has_blocking(fs) THEN 1 ELSE 0

\* lib.rs:206-270: print the findings, then process::exit(1) when a finding is
\* an Error or a Warning (nothing is returned), Ok(()) otherwise
Report ==
    /\ pc = "Reporting"
    /\ result' = IF has_blocking(findings) THEN "ProcessExit" ELSE "Ok"
    /\ exit_code' = exit_status(findings)
    /\ pc' = "Terminal"
    /\ UNCHANGED <<entry, project_path, disk, config, config_file, findings,
                   cargo_manifest, ran>>
    /\ UNCHANGED <<scanVars, branchVars, unitVars>>

Next ==
    \/ Canonicalize
    \/ LoadConfig
    \/ CollectFiles
    \/ \E i \in 1..Len(rust_files) : ScanStart(i)
    \/ \E i \in 1..Len(rust_files) : ScanLine(i)
    \/ ScanCollect
    \/ CheckProject
    \/ ParseManifest
    \/ ManifestSkipped
    \/ MissingMetadata
    \/ DependencyVersions
    \/ RustEdition
    \/ ProjectMetadata
    \/ OutdatedDependency
    \/ Vulnerabilities
    \/ Merge
    \/ DeniedLints
    \/ Report

Spec == Init /\ [][Next]_vars

(***************************************************************************)
(* Config::is_check_enabled on its own                                     *)
(***************************************************************************)
MaxConfigEntries == 2

\* the checks maps with at most n entries
ConfigsUpTo(n) ==
    UNION {[D -> BOOLEAN] : D \in {K \in SUBSET ConfigKeys : Cardinality(K) <= n}}

InitConfig ==
    /\ entry = "is_check_enabled"
    /\ pc = "Ready"
    /\ project_path = <<>>
    /\ disk = <<>>
    /\ config \in ConfigsUpTo(MaxConfigEntries)
    /\ ran = NoneRan
    /\ NoScan
    /\ NothingYet

\* a call config.is_check_enabled(check_code)
IsCheckEnabled ==
    /\ entry = "is_check_enabled"
    /\ \E check_code \in CheckCodes \cup {"XX999"} :
          /\ query' = check_code
          /\ answer' = is_check_enabled(config, check_code)
    /\ pc' = "Returned"
    /\ UNCHANGED <<entry, project_path, disk, config, config_file, findings,
                   cargo_manifest, ran, result, exit_code>>
    /\ UNCHANGED <<scanVars, branchVars>>

NextConfig == IsCheckEnabled

SpecConfig == InitConfig /\ [][NextConfig]_vars

(***************************************************************************)
(* check_code_patterns on its own: one file of any place and content,      *)
(* alone or after another file                                             *)
(***************************************************************************)
MaxLines == 2

ScanRoots == {<<"home", "proj">>, <<"opt", "bin", "proj">>}

RelPaths ==
    {<<"src", "lib.rs">>, <<"src", "main.rs">>, <<"src", "module.rs">>,
     <<"src", "bin", "tool.rs">>, <<"src", "sub", "main.rs">>, <<"src", "build.rs">>,
     <<"build.rs">>, <<"tests", "it.rs">>}

LineKinds ==
    {{}, {"unwrap"}, {"expect"}, {"print"}, {"todo"}, {"unwrap", "expect"},
     {"print", "todo"}, {"unwrap", "expect", "print", "todo"}}

Contents(n) == UNION {[1..k -> LineKinds] : k \in 0..n}

\* the file scanned before the file under study: none, a file that is not on
\* disk, a readable test file
Companions == {"none", "gone", "other"}

CompanionPath(root, c) ==
    IF c = "gone" THEN <<join(root, <<"src", "gone.rs">>)>>
    ELSE IF c = "other" THEN <<join(root, <<"tests", "other.rs">>)>>
    ELSE <<>>

CompanionDisk(root, c) ==
    IF c = "other"
    THEN <<File(root, <<"tests", "other.rs">>, TRUE, <<{"todo"}, {"unwrap", "todo"}>>)>>
    ELSE <<>>

InitScan ==
    /\ entry = "check_code_patterns"
    /\ pc = "Scanning"
    /\ project_path \in ScanRoots
    /\ \E rel \in RelPaths, readable \in BOOLEAN, lines \in Contents(MaxLines),
          c \in Companions :
          /\ disk = CompanionDisk(project_path, c)
                        \o <<File(project_path, rel, readable, lines)>>
          /\ rust_files = CompanionPath(project_path, c) \o <<join(project_path, rel)>>
    /\ task = AllPending(rust_files)
    /\ task_line = AllFirstLine(rust_files)
    /\ task_lib = AllNotLib(rust_files)
    /\ per_file_findings = AllEmpty(rust_files)
    /\ config = DefaultConfig
    /\ ran = [NoneRan EXCEPT !["pattern_scan"] = 1]
    /\ NothingYet

NextScan ==
    \/ \E i \in 1..Len(rust_files) : ScanStart(i)
    \/ \E i \in 1..Len(rust_files) : ScanLine(i)
    \/ ScanCollect

SpecScan == InitScan /\ [][NextScan]_vars

(***************************************************************************)
(* The pipeline as a function of what it read: the findings a run returns  *)
(* under a configuration, given the files, the parsed manifest, the        *)
(* dependency metadata, the registry answers and the audit output          *)
(***************************************************************************)
\* check_outdated_dependencies, the registry answers taken in lookup order
RECURSIVE outdated_from(_, _, _)
outdated_from(deps, k, answers) ==
    IF k > Len(deps) THEN <<>>
    ELSE LET e == deps[k]
         IN  IF is_looked_up(e.member, e.dep)
             THEN lookup_findings(e.dep.name,
                                  find_link(e.member.links, e.dep.name)[1].version,
                                  Head(answers).resp)
                  \o outdated_from(deps, k + 1, Tail(answers))
             ELSE outdated_from(deps, k + 1, answers)

check_outdated_dependencies(md, answers) == outdated_from(DeclaredDeps(md), 1, answers)

analyze_project_for_test(cfg, root, d, parsed, md, answers, out) ==
       check_code_patterns(collect_rust_files(root, d), root, d)
    \o (IF parsed.ok THEN check_project_structure(root, parsed.manifest, d) ELSE <<>>)
    \o (IF parsed.ok
        THEN check_missing_metadata(parsed.manifest, cfg)
             \o check_dependency_versions(parsed.manifest, cfg)
             \o check_rust_edition(parsed.manifest)
        ELSE <<>>)
    \o (IF md.ok THEN check_outdated_dependencies(md, answers) ELSE <<>>)
    \o check_vulnerability(root, out)
    \o check_missing_denied_lints(root, cfg, d)

\* the findings of this run had it been made under cfg
SameRunUnder(cfg) ==
    analyze_project_for_test(cfg, project_path, disk, cargo_manifest, metadata,
                             registry, audit)

(***************************************************************************)
(* Properties                                                              *)
(***************************************************************************)
Finished == entry = "analyze_project" /\ pc = "Terminal"

\* C1: a run that reaches its terminal state exits non-zero exactly when the
\* final finding collection holds an Error or a Warning; an empty collection
\* or one of Notes only never fails the run.
C1_ExitStatus ==
    Finished =>
        (exit_code # 0 <=>
            \E k \in 1..Len(findings) : findings[k].severity \in {"Error", "Warning"})

\* a finished run with findings, all of them Notes, that exits 0
C1_Witness ==
    /\ Finished
    /\ findings # <<>>
    /\ \A k \in 1..Len(findings) : findings[k].severity = "Note"
    /\ exit_code = 0

\* the removal C2 speaks of, for one code the configuration maps to false
DisablingRemovesOnly(c) ==
    /\ CountCode(findings, c) = 0
    /\ WithoutCode(findings, c) = WithoutCode(SameRunUnder([config EXCEPT ![c] = TRUE]), c)

\* C2: for every check code the configuration maps to false, the
\* final collection holds no finding of that code and the findings of every
\* other code are those of the same run with the code enabled.
C2_AnyDisabledCodeIsRemoved ==
    Finished =>
        \A c \in DOMAIN config : config[c] = FALSE => DisablingRemovesOnly(c)

EnvironmentFailures == {"UnresolvableProjectPath", "NotRustProject"}

\* C3 as stated: when the path does not resolve or the manifest file is
\* missing, the typed failure is returned before any check has run: no file
\* collection, no pattern scan, no other check, no finding.
C3_AbortBeforeAnyCheck ==
    result \in EnvironmentFailures =>
        /\ \A c \in Checks : ran[c] = 0
        /\ findings = <<>>

\* C3 amended: an unresolvable path aborts before any check has run and with
\* no finding; a missing manifest file aborts after the file collection and
\* the pattern scan have run once, and before any other check runs: the only
\* findings produced by then are the pattern scanner's.
C3_AbortBeforeManifestChecks ==
    /\ result = "UnresolvableProjectPath" =>
          /\ \A c \in Checks : ran[c] = 0
          /\ findings = <<>>
    /\ result = "NotRustProject" =>
          /\ ran["file_collection"] = 1
          /\ ran["pattern_scan"] = 1
          /\ \A c \in Checks \ {"file_collection", "pattern_scan"} : ran[c] = 0
          /\ findings = check_code_patterns(rust_files, project_path, disk)
    /\ pc = "Aborted" => result \in EnvironmentFailures

\* a run aborted for a missing manifest, after the scan produced findings
C3_Witness ==
    /\ pc = "Aborted"
    /\ result = "NotRustProject"
    /\ findings # <<>>

\* C4: past the environment checks, whatever the registry, the dependency
\* metadata, the audit tool and the version strings do, the run is never
\* aborted with an error: it reports its findings and ends by them (Ok, or
\* the failing exit when one is an Error or a Warning), and every independent
\* check has been attempted once: pattern scan, project structure, manifest
\* checks, registry freshness, vulnerability scan and lint configuration (and
\* the file collection and dependency-graph request they rest on).
C4_EveryCheckAttempted ==
    /\ Finished =>
          /\ result = (IF has_blocking(findings) THEN "ProcessExit" ELSE "Ok")
          /\ \A c \in Checks : ran[c] = 1
    /\ pc = "Aborted" => result \in EnvironmentFailures
    /\ (entry = "analyze_project" /\ pc \notin {"Terminal", "Aborted"}) => ENABLED Next

registry_failed(k) == ~get_latest_versions_from_crates_io(registry[k].resp).ok

\* a degraded-check error other than a version-parse failure occurred
DegradedError ==
    \/ ~metadata.ok
    \/ \E k \in 1..Len(registry) : registry_failed(k)
    \/ ~audit.spawned
    \/ audit.spawned /\ audit.stdout # "report"

\* C5: every degraded-check error other than a version-parse failure leaves
\* at least one Warning or Note in the final collection.
C5_DegradedErrorLeavesFinding ==
    (Finished /\ DegradedError) =>
        \E k \in 1..Len(findings) : findings[k].severity \in {"Warning", "Note"}

\* C6: a manifest that exists but does not parse makes the run a hard error:
\* the run does not go on to report a finding collection and end by it (Ok, or
\* the exit its findings call for) as if the manifest had parsed.
C6_ParseFailureIsHardError ==
    ~(Finished /\ ~cargo_manifest.ok /\ result \in {"Ok", "ProcessExit"})

\* C7: is_check_enabled answers true for a code absent from the checks map
\* and the stored boolean for a code present in it.
C7_DefaultAllow ==
    (entry = "is_check_enabled" /\ pc = "Returned") =>
        /\ query \notin DOMAIN config => answer = TRUE
        /\ query \in DOMAIN config => answer = config[query]

\* a map that disables one code, asked about a code it does not hold
C7_Witness ==
    /\ entry = "is_check_enabled"
    /\ pc = "Returned"
    /\ query \notin DOMAIN config
    /\ \E c \in DOMAIN config : config[c] = FALSE
    /\ answer = TRUE

\* application context, as the spec names it: the program entry point, a file
\* under the binaries directory, the build script
ApplicationContext(file_path, root) ==
    \/ file_path = join(root, <<"src", "main.rs">>)
    \/ starts_with(file_path, join(root, <<"src", "bin">>))
    \/ file_path = join(root, <<"build.rs">>)

\* library context, as the spec names it: under the source tree, and neither
\* application context nor the library root
LibraryContext(file_path, root) ==
    /\ starts_with(file_path, join(root, <<"src">>))
    /\ ~ApplicationContext(file_path, root)
    /\ file_path # join(root, <<"src", "lib.rs">>)

Scanned == entry = "check_code_patterns" /\ pc = "Returned"

FindingsFor(file_path) == {k \in 1..Len(findings) : findings[k].file_path = file_path}

\* C8: no CODE001, CODE002 or CODE003 finding for a file in application
\* context; one CODE004 finding for every matching line of every file read.
C8_ApplicationContextExempt ==
    Scanned =>
        \A i \in 1..Len(rust_files) :
            LET file_path == rust_files[i]
                f == Lookup(disk, file_path)
            IN  /\ ApplicationContext(file_path, project_path) =>
                      \A k \in FindingsFor(file_path) :
                          findings[k].code \notin {"CODE001", "CODE002", "CODE003"}
                /\ f.readable =>
                      \A n \in 1..Len(f.lines) :
                          "todo" \in f.lines[n] =>
                              Cardinality({k \in FindingsFor(file_path) :
                                              /\ findings[k].code = "CODE004"
                                              /\ findings[k].line_number = n}) = 1

\* an application-context file read with a line matching all four rules
C8_Witness ==
    /\ Scanned
    /\ \E i \in 1..Len(rust_files) :
          LET f == Lookup(disk, rust_files[i])
          IN  /\ ApplicationContext(rust_files[i], project_path)
              /\ f.readable
              /\ \E n \in 1..Len(f.lines) : {"unwrap", "expect", "print", "todo"} \subseteq f.lines[n]
              /\ \E k \in FindingsFor(rust_files[i]) : findings[k].code = "CODE004"

\* C9: is_library_file answers true exactly for the files under the source
\* tree that are neither src/main.rs, nor under src/bin, nor the build
\* script, nor src/lib.rs, whatever their name and wherever the root is.
C9_LibraryClassification ==
    entry = "check_code_patterns" =>
        \A i \in 1..Len(rust_files) :
            task[i] # "pending" =>
                (task_lib[i] <=> LibraryContext(rust_files[i], project_path))

RuleMarkers == {"unwrap", "expect", "print", "todo"}

RuleCode(m) ==
    CASE m = "unwrap" -> "CODE001"
      [] m = "expect" -> "CODE002"
      [] m = "print" -> "CODE003"
      [] m = "todo" -> "CODE004"

RuleSeverity(m) == IF m = "unwrap" THEN "Warning" ELSE "Note"

OneInstanceOfEach(lines) ==
    \A m \in RuleMarkers : Cardinality({n \in 1..Len(lines) : m \in lines[n]}) = 1

\* C10: a library-context file with one instance of each of the four patterns
\* draws exactly four findings, one per rule, each with the rule's severity
\* and the 1-based number of the line holding the pattern.
C10_OneFindingPerRule ==
    Scanned =>
        \A i \in 1..Len(rust_files) :
            LET file_path == rust_files[i]
                f == Lookup(disk, file_path)
            IN  (/\ f.readable
                 /\ LibraryContext(file_path, project_path)
                 /\ OneInstanceOfEach(f.lines)) =>
                    /\ Cardinality(FindingsFor(file_path)) = 4
                    /\ \A m \in RuleMarkers :
                          \E k \in FindingsFor(file_path) :
                              /\ findings[k].code = RuleCode(m)
                              /\ findings[k].severity = RuleSeverity(m)
                              /\ m \in f.lines[findings[k].line_number]

\* the findings of one file, in the order they were returned
FindingsOf(file_path) == SelectSeq(findings, LAMBDA f : f.file_path = file_path)

\* C11: a file that cannot be read draws exactly one finding, the file-read
\* finding IO001 of severity Warning naming the file, and no line-level
\* finding; every other file is still scanned, line by line.
C11_ReadFailureIsOneWarning ==
    Scanned =>
        \A i \in 1..Len(rust_files) :
            LET file_path == rust_files[i]
                f == Lookup(disk, file_path)
            IN  /\ task[i] = "done"
                /\ ~f.readable =>
                      /\ Len(FindingsOf(file_path)) = 1
                      /\ FindingsOf(file_path)[1].code = "IO001"
                      /\ FindingsOf(file_path)[1].severity = "Warning"
                      /\ FindingsOf(file_path)[1].line_number = NoLine
                /\ f.readable =>
                      /\ \A k \in FindingsFor(file_path) : findings[k].code # "IO001"
                      /\ \A n \in 1..Len(f.lines) :
                            "todo" \in f.lines[n] =>
                                \E k \in FindingsFor(file_path) :
                                    /\ findings[k].code = "CODE004"
                                    /\ findings[k].line_number = n

\* a file with matching lines that cannot be read, scanned before or after a
\* file that is read and draws its line-level findings
C11_Witness ==
    /\ Scanned
    /\ \E i, j \in 1..Len(rust_files) :
          /\ ~Lookup(disk, rust_files[i]).readable
          /\ Lookup(disk, rust_files[i]).lines # <<>>
          /\ Len(FindingsOf(rust_files[i])) = 1
          /\ Lookup(disk, rust_files[j]).readable
          /\ \E k \in FindingsFor(rust_files[j]) : findings[k].code = "CODE004"

(***************************************************************************)
(* The manifest checks on their own (lib.rs:173-177): any parsed manifest  *)
(* of the menu below, under a configuration                                *)
(***************************************************************************)
Editions == {None, Some("2021"), Some("2024")}
Descriptions == {None, Some(""), Some("A project")}
Licenses == {None, Some("MIT")}
Repositories == {None, Some("https://example.org/repo")}
Readmes == {None, Some(TomlString(<<"README.md">>)), Some(TomlBoolean(FALSE)),
            Some(TomlBoolean(TRUE)), Some(TomlInteger)}

Packages ==
    {NoPackage} \cup
    {Package(<<"test", "project">>, e, d, l, r, repo) :
        e \in Editions, d \in Descriptions, l \in Licenses, r \in Readmes,
        repo \in Repositories}

RuntimeTables ==
    { None,
      Some(<<>>),
      Some(<<Entry("serde", VersionDep("*"))>>),
      Some(<<Entry("serde", VersionDep("1.0")),
             Entry("rand", DetailedDep(Some("*"), None))>>),
      Some(<<Entry("local", DetailedDep(None, Some("../local"))),
             Entry("both", DetailedDep(Some("*"), Some("../both")))>>) }

DevTables == {None, Some(<<Entry("serde", VersionDep("*"))>>)}

BuildTables ==
    { None,
      Some(<<Entry("cc", DetailedDep(Some("*"), None)),
             Entry("local", DetailedDep(None, Some("../local")))>>) }

Manifests ==
    {CargoManifest(p, deps, dev, build) :
        p \in Packages, deps \in RuntimeTables, dev \in DevTables, build \in BuildTables}

ManifestConfigs ==
    { DefaultConfig,
      SingleEntry("MD004", FALSE),
      SingleEntry("DP001", FALSE),
      SingleEntry("MD005", FALSE),
      [c \in {"MD001", "MD002", "MD003", "ED002"} |-> c = "MD003"] }

InitManifest ==
    /\ entry = "manifest_checks"
    /\ pc = "Validating"
    /\ project_path = PipelineRoot
    /\ disk = <<>>
    /\ config \in ManifestConfigs
    /\ config_file = NoConfigFile
    /\ \E m \in Manifests : cargo_manifest = [ok |-> TRUE, manifest |-> m]
    /\ m_pc = "start"
    /\ manifest_findings = <<>>
    /\ d_pc = "idle"
    /\ dep_findings = <<>>
    /\ metadata = NoMetadata
    /\ dep_index = 0
    /\ registry = <<>>
    /\ audit = NoAudit
    /\ findings = <<>>
    /\ ran = NoneRan
    /\ result = "none"
    /\ exit_code = NotExited
    /\ query = ""
    /\ answer = TRUE
    /\ NoScan

NextManifest ==
    \/ MissingMetadata
    \/ DependencyVersions
    \/ RustEdition

SpecManifest == InitManifest /\ [][NextManifest]_vars

Validated == entry = "manifest_checks" /\ m_pc = "done"

\* the five metadata fields of the package section and the finding of each
MetadataFields == {"description", "license", "repository", "readme", "edition"}

FieldCode(f) ==
    CASE f = "description" -> "MD001"
      [] f = "license" -> "MD002"
      [] f = "repository" -> "MD003"
      [] f = "readme" -> "MD004"
      [] f = "edition" -> "ED002"

FieldSeverity(f) == IF f \in {"description", "license"} THEN "Warning" ELSE "Note"

\* the editions of the language
KnownEditions == {"2015", "2018", "2021", "2024"}

\* a field that is present and valid, the edition being one of editions
FieldValid(p, f, editions) ==
    CASE f = "readme" ->
            /\ p.readme # None
            /\ (p.readme[1].kind = "String" \/ p.readme[1] = TomlBoolean(FALSE))
      [] f = "edition" -> p.edition # None /\ p.edition[1] \in editions
      [] OTHER -> p[f] # None /\ p[f] # Some("")

\* every field is present and valid, but for the removed ones, which are absent
CompleteExcept(p, removed, editions) ==
    \A f \in MetadataFields :
        IF f \in removed THEN p[f] = None ELSE FieldValid(p, f, editions)

NoWildcard(m) ==
    \A t \in {m.dependencies, m.dev_dependencies, m.build_dependencies} :
        t # None => \A i \in 1..Len(t[1]) : t[1][i].dep.version # Some("*")

\* the manifest under validation draws one finding per removed field, each
\* that of its field, and nothing else
OneFindingPerRemovedField(editions) ==
    LET m == cargo_manifest.manifest
    IN  \A removed \in {{}} \cup {{f} : f \in MetadataFields} :
            (m.package.some /\ NoWildcard(m)
                /\ CompleteExcept(m.package, removed, editions)) =>
                /\ Len(manifest_findings) = Cardinality(removed)
                /\ \A f \in removed :
                      /\ manifest_findings[1].code = FieldCode(f)
                      /\ manifest_findings[1].severity = FieldSeverity(f)

\* C12 as stated: with every check enabled, a manifest whose five metadata
\* fields are present and valid (the edition any edition of the language)
\* draws no finding from the manifest checks, and removing one field draws
\* exactly the finding of that field.
C12_CompleteManifestIsClean ==
    (Validated /\ config = DefaultConfig) => OneFindingPerRemovedField(KnownEditions)

\* C12 amended: the same, for a manifest whose edition is the latest stable
\* edition ("2024"), under every configuration that enables the four metadata
\* checks; any other edition adds the Note ED001.
C12_LatestEditionManifestIsClean ==
    (Validated /\ \A c \in {"MD001", "MD002", "MD003", "MD004"} : is_check_enabled(config, c))
        => OneFindingPerRemovedField({LATEST_STABLE_EDITION})

\* a validated manifest, complete but for the repository, with its one Note
C12_Witness ==
    /\ Validated
    /\ config = DefaultConfig
    /\ NoWildcard(cargo_manifest.manifest)
    /\ cargo_manifest.manifest.package.some
    /\ CompleteExcept(cargo_manifest.manifest.package, {"repository"}, {LATEST_STABLE_EDITION})
    /\ Len(manifest_findings) = 1
    /\ manifest_findings[1].code = "MD003"

\* C13 as stated: for every manifest with no package section and every
\* configuration, the manifest checks emit exactly one finding, MD005 of
\* severity Error.
C13_NoPackageIsOneError ==
    (Validated /\ ~cargo_manifest.manifest.package.some) =>
        /\ Len(manifest_findings) = 1
        /\ manifest_findings[1].code = "MD005"
        /\ manifest_findings[1].severity = "Error"

\* C13 amended: for every manifest with no package section and every
\* configuration, the manifest checks emit exactly one MD005 finding, of
\* severity Error, and none of the description, license, repository, readme
\* or edition findings; the only other findings are those of the wildcard
\* check (DP001) on the dependency tables.
C13_NoPackageIsOneErrorAndWildcards ==
    (Validated /\ ~cargo_manifest.manifest.package.some) =>
        /\ CountCode(manifest_findings, "MD005") = 1
        /\ \A k \in 1..Len(manifest_findings) :
              /\ manifest_findings[k].code \in {"MD005", "DP001"}
              /\ manifest_findings[k].code = "MD005" =>
                    manifest_findings[k].severity = "Error"
        /\ NoWildcard(cargo_manifest.manifest) => Len(manifest_findings) = 1

\* a validated manifest with no package section, under a configuration that
\* maps MD005 to false, with its MD005 finding
C13_Witness ==
    /\ Validated
    /\ ~cargo_manifest.manifest.package.some
    /\ config = SingleEntry("MD005", FALSE)
    /\ manifest_findings # <<>>
    /\ manifest_findings[1].code = "MD005"

\* C14: a manifest with no package section is not an error by itself: a run
\* over a project with such a manifest fails only if a finding other than
\* the one reporting the absent package section is an Error or a Warning.
C14_VirtualManifestDoesNotFail ==
    (Finished /\ cargo_manifest.ok /\ ~cargo_manifest.manifest.package.some
        /\ exit_code # 0) =>
        \E k \in 1..Len(findings) :
            /\ is_blocking(findings[k].severity)
            /\ findings[k].code # "MD005"

\* a local dependency, as the spec defines it: a path and no version
LocalPathDependency(dep) == dep.path # None /\ dep.version = None

\* the dependency maps of the manifest under validation, by role
DependencyTable(role) ==
    LET m == cargo_manifest.manifest
        t == CASE role = "runtime" -> m.dependencies
               [] role = "dev" -> m.dev_dependencies
               [] role = "build" -> m.build_dependencies
    IN  IF t = None THEN <<>> ELSE t[1]

Roles == {"runtime", "dev", "build"}

IsWildcard(dep) == dep.version = Some("*") /\ ~LocalPathDependency(dep)

\* the DP001 findings whose message names this dependency in this role
WildcardFindings(role, name) ==
    {k \in 1..Len(manifest_findings) :
        /\ manifest_findings[k].code = "DP001"
        /\ manifest_findings[k].message[2] = role
        /\ manifest_findings[k].message[3] = name}

\* C15: with DP001 enabled, every entry of the runtime, dev and build maps
\* whose version is exactly "*" and which is not a local path dependency draws
\* exactly one DP001 Warning naming it and its role; no other entry draws a
\* finding, a dependency with a path and no version in particular.
C15_OneWarningPerWildcard ==
    (Validated /\ is_check_enabled(config, "DP001")) =>
        /\ \A role \in Roles :
              \A i \in 1..Len(DependencyTable(role)) :
                  LET e == DependencyTable(role)[i]
                  IN  Cardinality(WildcardFindings(role, e.name)) =
                          IF IsWildcard(e.dep) THEN 1 ELSE 0
        /\ \A k \in 1..Len(manifest_findings) :
              manifest_findings[k].code = "DP001" =>
                  /\ manifest_findings[k].severity = "Warning"
                  /\ \E role \in Roles :
                        \E i \in 1..Len(DependencyTable(role)) :
                            k \in WildcardFindings(role, DependencyTable(role)[i].name)

\* a validated manifest with a wildcard in its detailed form and a local
\* dependency in the same map: one finding for the first, none for the second
C15_Witness ==
    /\ Validated
    /\ is_check_enabled(config, "DP001")
    /\ \E i, j \in 1..Len(DependencyTable("build")) :
          /\ DependencyTable("build")[i].dep.kind = "Detailed"
          /\ IsWildcard(DependencyTable("build")[i].dep)
          /\ LocalPathDependency(DependencyTable("build")[j].dep)
          /\ Cardinality(WildcardFindings("build", DependencyTable("build")[i].name)) = 1
          /\ Cardinality(WildcardFindings("build", DependencyTable("build")[j].name)) = 0

Md004Findings == SelectSeq(manifest_findings, LAMBDA f : f.code = "MD004")

\* C16: with MD004 enabled and a package section present, the readme field
\* draws one Note when absent, one Warning when present but neither a string
\* nor false, and nothing when it is a string or false.
C16_ReadmeField ==
    (Validated /\ is_check_enabled(config, "MD004")
        /\ cargo_manifest.manifest.package.some) =>
        LET readme == cargo_manifest.manifest.package.readme
        IN  IF readme = None
            THEN Len(Md004Findings) = 1 /\ Md004Findings[1].severity = "Note"
            ELSE IF readme[1].kind = "String" \/ readme[1] = TomlBoolean(FALSE)
                 THEN Md004Findings = <<>>
                 ELSE Len(Md004Findings) = 1 /\ Md004Findings[1].severity = "Warning"

\* a validated manifest whose readme is the boolean true, with its Warning
C16_Witness ==
    /\ Validated
    /\ is_check_enabled(config, "MD004")
    /\ cargo_manifest.manifest.package.some
    /\ cargo_manifest.manifest.package.readme = Some(TomlBoolean(TRUE))
    /\ Len(Md004Findings) = 1
    /\ Md004Findings[1].severity = "Warning"

(***************************************************************************)
(* check_outdated_dependencies on its own: the dependency graph of a       *)
(* workspace of up to MaxMembers members, the registry answering each      *)
(* lookup in any way                                                       *)
(***************************************************************************)
MaxMembers == 2

CratesIo == Some("crates.io")

WorkspaceMembers ==
    { \* a registry dependency and a local one
      Member(<<Declared("serde", CratesIo), Declared("local", None)>>,
             <<Link("serde", "1.2.3"), Link("local", "1.0.0")>>),
      \* a hyphenated package name: the link carries the library name
      Member(<<Declared("tokio-util", CratesIo), Declared("rand", CratesIo)>>,
             <<Link("tokio_util", "1.0.0"), Link("rand", "1.9.0")>>),
      \* one package declared as a runtime and as a dev dependency
      Member(<<Declared("serde", CratesIo), Declared("serde", CratesIo)>>,
             <<Link("serde", "1.10.0")>>),
      \* a git dependency
      Member(<<Declared("forked", Some("git")), Declared("rand", CratesIo)>>,
             <<Link("forked", "1.0.0"), Link("rand", "1.10.0")>>),
      \* no dependency
      Member(<<>>, <<>>) }

Workspaces(n) ==
    {ms \in UNION {[1..k -> WorkspaceMembers] : k \in 0..n} :
        \A i, j \in 1..Len(ms) : i # j => ms[i] # ms[j]}

FreshnessResponses ==
    {Response(TRUE, 200, TRUE, v) : v \in VersionStrings}
    \cup { Response(FALSE, 0, FALSE, ""),
           Response(TRUE, 404, FALSE, ""),
           Response(TRUE, 200, FALSE, "") }

InitFreshness ==
    /\ entry = "check_outdated_dependencies"
    /\ pc = "Validating"
    /\ project_path = PipelineRoot
    /\ disk = <<>>
    /\ config = DefaultConfig
    /\ config_file = NoConfigFile
    /\ cargo_manifest = NotParsed
    /\ m_pc = "idle"
    /\ manifest_findings = <<>>
    /\ \E ms \in Workspaces(MaxMembers) : metadata = [ok |-> TRUE, members |-> ms]
    /\ d_pc = IF DeclaredDeps(metadata) = <<>> THEN "audit" ELSE "outdated"
    /\ dep_index = 1
    /\ dep_findings = <<>>
    /\ registry = <<>>
    /\ audit = NoAudit
    /\ findings = <<>>
    /\ ran = [NoneRan EXCEPT !["registry_freshness"] = 1]
    /\ result = "none"
    /\ exit_code = NotExited
    /\ query = ""
    /\ answer = TRUE
    /\ NoScan

NextFreshness == OutdatedDependencyFrom(FreshnessResponses)

SpecFreshness == InitFreshness /\ [][NextFreshness]_vars

FreshnessReturned == entry = "check_outdated_dependencies" /\ d_pc = "audit"

\* the declared dependency a recorded lookup was made for, and the version
\* the dependency graph resolved it to
LookedUp(k) == DeclaredDeps(metadata)[registry[k].index]
Resolved(k) == find_link(LookedUp(k).member.links, LookedUp(k).dep.name)[1].version

\* the registry answered: the request went through, with a success status and
\* a body naming the latest version
Answered(resp) == resp.transport /\ resp.status \in 200..299 /\ resp.json

\* semantic-version ordering of two parsed versions
SemverLess(a, b) ==
    \E i \in 1..3 : a[i] < b[i] /\ \A j \in 1..(i - 1) : a[j] = b[j]

\* the outcome the freshness checker owes for a lookup: what the finding is
\* and what it names
Outcome(k) ==
    LET resp == registry[k].resp
        cur == Version_parse(Resolved(k))
        latest == Version_parse(resp.max_version)
    IN  IF ~Answered(resp)
        THEN <<[code |-> "API001", names |-> <<registry[k].name>>]>>
        ELSE IF cur # None /\ latest # None /\ SemverLess(cur[1], latest[1])
             THEN <<[code |-> "DP002",
                     names |-> <<registry[k].name, Resolved(k), resp.max_version>>]>>
             ELSE <<>>

\* what a finding of the freshness checker is and names
Named(f) ==
    [code |-> f.code,
     names |-> IF f.code = "DP002" THEN SubSeq(f.message, 2, 4) ELSE <<f.message[2]>>]

\* C17: lookup by lookup, the freshness checker returns one DP002 naming the
\* dependency and both versions when the registry answers and resolved <
\* latest in semantic-version order; nothing when resolved >= latest or a
\* version does not parse; one API001 Warning and no DP002 when the request
\* fails or the status is not a success.
C17_OutcomePerLookup ==
    FreshnessReturned =>
        /\ [i \in 1..Len(dep_findings) |-> Named(dep_findings[i])]
              = Flatten([k \in 1..Len(registry) |-> Outcome(k)])
        /\ \A i \in 1..Len(dep_findings) :
              dep_findings[i].code = "API001" => dep_findings[i].severity = "Warning"

\* a returned check in which 1.9.0 against 1.10.0 drew DP002, 1.10.0 against
\* 1.9.0 drew nothing and a lookup met status 404
C17_Witness ==
    /\ FreshnessReturned
    /\ \E k \in 1..Len(registry) :
          /\ Resolved(k) = "1.9.0"
          /\ Answered(registry[k].resp)
          /\ registry[k].resp.max_version = "1.10.0"
    /\ \E k \in 1..Len(registry) :
          /\ Resolved(k) = "1.10.0"
          /\ Answered(registry[k].resp)
          /\ registry[k].resp.max_version = "1.9.0"
    /\ \E k \in 1..Len(registry) : registry[k].resp.status = 404
    /\ CountCode(dep_findings, "DP002") = 1
    /\ CountCode(dep_findings, "API001") = 1

\* the lookups made for a dependency of a member
LookupsOf(member, name) ==
    {k \in 1..Len(registry) : LookedUp(k).member = member /\ registry[k].name = name}

\* C18: every registry-sourced dependency of every member is looked up
\* exactly once, whatever its name and whatever happened to earlier lookups;
\* a dependency with no registry source is never looked up.
C18_OneLookupPerDependency ==
    FreshnessReturned =>
        \A i \in 1..Len(DeclaredDeps(metadata)) :
            LET e == DeclaredDeps(metadata)[i]
            IN  Cardinality(LookupsOf(e.member, e.dep.name)) =
                    IF e.dep.source = CratesIo THEN 1 ELSE 0

(***************************************************************************)
(* check_vulnerability on its own: any outcome of the audit subprocess,    *)
(* with a report of up to MaxVulnerabilities entries                       *)
(***************************************************************************)
MaxVulnerabilities == 2

Advisories ==
    { Vulnerability("time", "RUSTSEC-2020-0071", "Potential segfault", <<">=0.2.23">>),
      Vulnerability("chrono", "RUSTSEC-2020-0159", "Potential segfault in localtime_r",
                    <<">=0.4.20">>),
      Vulnerability("atty", "RUSTSEC-2021-0145", "Potential unaligned read", <<>>) }

Reports(n) == UNION {[1..k -> Advisories] : k \in 0..n}

AuditRuns ==
    {AuditOutput(FALSE, FALSE, "empty", <<>>, TRUE)}
    \cup {AuditOutput(TRUE, success, stdout, <<>>, stderr_empty) :
             success \in BOOLEAN, stdout \in {"empty", "garbage"},
             stderr_empty \in BOOLEAN}
    \cup {AuditOutput(TRUE, success, "report", vulns, stderr_empty) :
             success \in BOOLEAN, vulns \in Reports(MaxVulnerabilities),
             stderr_empty \in BOOLEAN}

InitAudit ==
    /\ entry = "check_vulnerability"
    /\ pc = "Validating"
    /\ project_path \in ScanRoots
    /\ disk = <<>>
    /\ config = DefaultConfig
    /\ config_file = NoConfigFile
    /\ cargo_manifest = NotParsed
    /\ m_pc = "idle"
    /\ manifest_findings = <<>>
    /\ metadata = NoMetadata
    /\ d_pc = "audit"
    /\ dep_index = 0
    /\ dep_findings = <<>>
    /\ registry = <<>>
    /\ audit = NoAudit
    /\ findings = <<>>
    /\ ran = NoneRan
    /\ result = "none"
    /\ exit_code = NotExited
    /\ query = ""
    /\ answer = TRUE
    /\ NoScan

NextAudit == VulnerabilitiesFrom(AuditRuns)

SpecAudit == InitAudit /\ [][NextAudit]_vars

AuditReturned == entry = "check_vulnerability" /\ d_pc = "done"

\* C19: a report that parses and lists N >= 1 entries draws exactly N
\* findings, one per entry and in the report's order, each SEC001 of severity
\* Error naming the package, the advisory identifier and title and the
\* patched versions, and nothing else, whatever the exit status.
C19_OneErrorPerVulnerability ==
    (AuditReturned /\ audit.spawned /\ audit.stdout = "report" /\ audit.vulns # <<>>) =>
        /\ Len(dep_findings) = Len(audit.vulns)
        /\ \A i \in 1..Len(audit.vulns) :
              /\ dep_findings[i].code = "SEC001"
              /\ dep_findings[i].severity = "Error"
              /\ dep_findings[i].message[2] = audit.vulns[i].package
              /\ dep_findings[i].message[3] = audit.vulns[i].title
              /\ dep_findings[i].message[4] = audit.vulns[i].id
              /\ SubSeq(dep_findings[i].message, 5, Len(dep_findings[i].message))
                    = audit.vulns[i].patched

\* a non-zero exit with text on standard error and a report of two entries,
\* with its two findings
C19_Witness ==
    /\ AuditReturned
    /\ audit.spawned
    /\ ~audit.success
    /\ ~audit.stderr_empty
    /\ audit.stdout = "report"
    /\ Len(audit.vulns) = 2
    /\ audit.vulns[1] # audit.vulns[2]
    /\ Len(dep_findings) = 2

\* C20: whenever the audit subprocess runs, exits non-zero and leaves no
\* parseable report (its standard output empty or not, with or without text
\* on standard error), the adapter returns exactly one finding, a Warning.
C20_UnparseableFailureIsOneWarning ==
    (AuditReturned /\ audit.spawned /\ ~audit.success /\ audit.stdout # "report") =>
        /\ Len(dep_findings) = 1
        /\ dep_findings[1].severity = "Warning"

\* C21: a report that parses and lists no entry draws exactly one finding, a
\* Warning of code AUD002, when the subprocess exited non-zero, and no finding
\* when it exited zero.
C21_EmptyReport ==
    (AuditReturned /\ audit.spawned /\ audit.stdout = "report" /\ audit.vulns = <<>>) =>
        IF audit.success
        THEN dep_findings = <<>>
        ELSE /\ Len(dep_findings) = 1
             /\ dep_findings[1].code = "AUD002"
             /\ dep_findings[1].severity = "Warning"

\* an empty report from a subprocess that exited non-zero, answered by AUD002
C21_Witness ==
    /\ AuditReturned
    /\ audit.spawned
    /\ ~audit.success
    /\ audit.stdout = "report"
    /\ audit.vulns = <<>>
    /\ CodesOf(dep_findings) = <<"AUD002">>

\* the audit check of a run has been made and the command could not be started
AuditUnavailable ==
    /\ entry = "analyze_project"
    /\ ran["vulnerability_scan"] = 1
    /\ ~audit.spawned

\* the findings that hold the audit's results: the second branch's list until
\* the join, the run's list after it
AuditResults == IF pc = "Validating" THEN dep_findings ELSE findings

\* C22: when the audit command cannot be started, the run holds exactly one
\* audit finding, a Warning of code AUD004 that says the tool could not be
\* executed, and the run goes on: it is not aborted, it can take a step until it
\* is terminal, and it ends with the lint check done and its findings
\* reported: no error is returned, the exit is the one the Warning calls for.
C22_AuditUnavailableIsOneWarning ==
    AuditUnavailable =>
        /\ CountCode(AuditResults, "AUD004") = 1
        /\ \A i \in 1..Len(AuditResults) :
              /\ AuditResults[i].code \notin {"AUD001", "AUD002", "AUD003", "SEC001"}
              /\ AuditResults[i].code = "AUD004" =>
                    /\ AuditResults[i].severity = "Warning"
                    /\ AuditResults[i].file_path = NoPath
                    /\ AuditResults[i].message[1] = "Failed to execute 'cargo audit'"
        /\ pc # "Aborted"
        /\ pc # "Terminal" => ENABLED Next
        /\ pc = "Terminal" =>
              /\ result = "ProcessExit"
              /\ exit_code = 1
              /\ ran["lint_configuration"] = 1

\* a finished run whose audit command could not be started
C22_Witness ==
    /\ Finished
    /\ AuditUnavailable
    /\ CountCode(findings, "AUD004") = 1
    /\ ran["lint_configuration"] = 1

\* what the structure checks look at: the parsed package section, if any, and
\* the files of the project root
PackageSection ==
    IF cargo_manifest.ok THEN cargo_manifest.manifest.package ELSE NoPackage

HasSourceRoot ==
    \/ is_file(disk, join(project_path, <<"src", "lib.rs">>))
    \/ is_file(disk, join(project_path, <<"src", "main.rs">>))
    \/ is_dir(disk, join(project_path, <<"src", "bin">>))

HasReadme ==
    \/ is_file(disk, join(project_path, <<"README.md">>))
    \/ is_file(disk, join(project_path, <<"README.rst">>))

HasLicenseFile ==
    \E name \in license_files : is_file(disk, join(project_path, <<name>>))

LicenseDeclared ==
    /\ PackageSection.some
    /\ is_some(PackageSection.license)
    /\ PackageSection.license # Some("")

\* the findings of a code are exactly one of the given severity when the
\* condition holds and none otherwise
EmittedIff(code, severity, condition) ==
    /\ CountCode(findings, code) = (IF condition THEN 1 ELSE 0)
    /\ \A i \in 1..Len(findings) :
          findings[i].code = code => findings[i].severity = severity

\* C23: in a finished run, whether or not the manifest parsed, STRUCT001
\* (Warning) is present exactly when a package section exists and the library
\* root, the entry point and the binaries directory are all absent, STRUCT002
\* (Note) exactly when no README file exists and the readme field is neither
\* false nor the path of an existing file, and STRUCT003 (Warning) exactly
\* when no LICENSE variant exists and no license identifier is declared.
C23_StructureFindings ==
    Finished =>
        /\ EmittedIff("STRUCT001", "Warning", PackageSection.some /\ ~HasSourceRoot)
        /\ EmittedIff("STRUCT002", "Note",
                      /\ ~HasReadme
                      /\ ~readme_specified_and_false_or_exists(project_path,
                                                               PackageSection, disk))
        /\ EmittedIff("STRUCT003", "Warning", ~HasLicenseFile /\ ~LicenseDeclared)

(***************************************************************************)
(* check_missing_denied_lints on its own                                   *)
(***************************************************************************)
LintLineKinds == {{}, {"deny_warnings"}, {"deny_other"}, {"deny_warnings", "comment"}}

\* a crate root: absent, unreadable, or readable with up to n lines
CrateRoots(n) ==
    {[kind |-> k, lines |-> <<>>] : k \in {"absent", "unreadable"}}
    \cup {[kind |-> "readable", lines |-> ls] :
             ls \in UNION {[1..k -> LintLineKinds] : k \in 0..n}}

CrateRootFile(root, name, c) ==
    IF c.kind = "absent" THEN <<>>
    ELSE <<File(root, <<"src", name>>, c.kind = "readable", c.lines)>>

LintConfigs == {DefaultConfig, SingleEntry("LINT001", FALSE), SingleEntry("LINT001", TRUE)}

InitLints ==
    /\ entry = "check_missing_denied_lints"
    /\ pc = "Merging"
    /\ project_path \in ScanRoots
    /\ \E lib \in CrateRoots(MaxLines), main \in CrateRoots(MaxLines) :
          disk = CrateRootFile(project_path, "lib.rs", lib)
                 \o CrateRootFile(project_path, "main.rs", main)
    /\ config \in LintConfigs
    /\ findings = <<>>
    /\ ran = NoneRan
    /\ NoScan
    /\ NothingYet

NextLints == DeniedLints

SpecLints == InitLints /\ [][NextLints]_vars

LintsReturned == entry = "check_missing_denied_lints" /\ pc = "Reporting"

\* the file has a #![deny(..)] attribute of the crate that lists "warnings"
TopLevelDenyWarnings(f) ==
    \E n \in 1..Len(f.lines) :
        "deny_warnings" \in f.lines[n] /\ "comment" \notin f.lines[n]

\* C24: with LINT001 enabled the check returns exactly one Note for each of
\* src/lib.rs and src/main.rs that exists and has no top-level deny(warnings)
\* attribute, and none for a file that has one or does not exist; with LINT001
\* disabled it returns none. (Nothing is asked here of a file that exists but
\* cannot be read.)
C24_OneNotePerBareCrateRoot ==
    LintsReturned =>
        /\ \A i \in 1..Len(findings) :
              findings[i].code = "LINT001" /\ findings[i].severity = "Note"
        /\ \A name \in {"lib.rs", "main.rs"} :
              LET p == join(project_path, <<"src", name>>)
                  n == Cardinality({i \in 1..Len(findings) : findings[i].file_path = p})
              IN  IF ~is_check_enabled(config, "LINT001") \/ ~exists(disk, p)
                  THEN n = 0
                  ELSE Lookup(disk, p).readable =>
                          n = (IF TopLevelDenyWarnings(Lookup(disk, p)) THEN 0 ELSE 1)

\* the codes of a list as a bag: how often each code occurs
CodeBag(fs) == [c \in CheckCodes |-> CountCode(fs, c)]

\* C25: the bag of finding codes of a finished run is a function of the
\* project files, the configuration, the parsed manifest, the metadata and
\* the registry and audit responses alone: whatever the interleaving of the
\* scan tasks and of the two branches, it is the bag the sequential run over
\* the same inputs returns, so two runs over unchanged inputs agree.
C25_SameInputsSameCodes ==
    Finished =>
        /\ CodeBag(findings) = CodeBag(SameRunUnder(config))
        /\ \A i \in 1..Len(findings) : findings[i].code \in CheckCodes

\* a finished run with two scanned files that both drew findings and with
\* findings of both branches
C25_Witness ==
    /\ Finished
    /\ Len(rust_files) >= 2
    /\ \A i \in 1..2 : per_file_findings[i] # <<>>
    /\ manifest_findings # <<>>
    /\ dep_findings # <<>>
    /\ CodeBag(findings) = CodeBag(SameRunUnder(config))

\* the findings of a list that name the same file and carry a line are in
\* non-decreasing line order
LineOrdered(fs) ==
    \A k, l \in 1..Len(fs) :
        (/\ k < l
         /\ fs[k].file_path = fs[l].file_path
         /\ fs[k].line_number # NoLine
         /\ fs[l].line_number # NoLine) => fs[k].line_number <= fs[l].line_number

\* C26: at every moment of a run, whatever the scheduling of the scan tasks,
\* the findings of one file are in non-decreasing line order in each task's
\* list, in the list the scanner returns and in the run's collection up to
\* and including the final one.
C26_LineOrderWithinFile ==
    entry = "analyze_project" =>
        /\ \A i \in 1..Len(per_file_findings) : LineOrdered(per_file_findings[i])
        /\ LineOrdered(Flatten(per_file_findings))
        /\ LineOrdered(findings)

\* a finished run over two files whose collection holds findings of one file
\* on two different lines
C26_Witness ==
    /\ Finished
    /\ Len(rust_files) >= 2
    /\ \E k, l \in 1..Len(findings) :
          /\ k < l
          /\ findings[k].file_path = findings[l].file_path
          /\ findings[k].line_number # NoLine
          /\ findings[k].line_number < findings[l].line_number

\* two lists hold the same findings the same number of times
Occurrences(fs, f) == Cardinality({i \in 1..Len(fs) : fs[i] = f})

SameBag(a, b) == \A f \in Range(a) \cup Range(b) : Occurrences(a, f) = Occurrences(b, f)

\* what each check that ran returned: the scan tasks' lists, the structure
\* check's list, the two branches' lists and, once made, the lint check's list
ReturnedByChecks ==
       Flatten(per_file_findings)
    \o (IF ran["project_structure"] = 1
        THEN check_project_structure(project_path, cargo_manifest.manifest, disk)
        ELSE <<>>)
    \o manifest_findings
    \o dep_findings
    \o (IF ran["lint_configuration"] = 1
        THEN check_missing_denied_lints(project_path, config, disk)
        ELSE <<>>)

Joined == entry = "analyze_project" /\ pc \in {"Merging", "Reporting", "Terminal"}

\* C27: once the join has returned, the run's collection is exactly the
\* multiset union of the lists returned by the checks that ran: no finding is
\* lost, none is duplicated, none is invented.
C27_MergeIsMultisetUnion ==
    Joined =>
        /\ SameBag(findings, ReturnedByChecks)
        /\ Len(findings) = Len(ReturnedByChecks)

\* the join has returned with findings of the scan, of the structure check
\* and of both branches, at least two of them of the second branch
C27_Witness ==
    /\ Joined
    /\ pc = "Merging"
    /\ Flatten(per_file_findings) # <<>>
    /\ ran["project_structure"] = 1
    /\ check_project_structure(project_path, cargo_manifest.manifest, disk) # <<>>
    /\ manifest_findings # <<>>
    /\ Len(dep_findings) >= 2
    /\ SameBag(findings, ReturnedByChecks)

\* a step of the scan phase: the run's collection is written only by the
\* collect, once every task has returned; a step that writes a task's list is
\* a step of that task, which has not returned, and writes no other task's list
ScanStepIsLocal ==
    pc = "Scanning" =>
        /\ findings' # findings => all_done(task)
        /\ \A i \in 1..Len(per_file_findings) :
              per_file_findings'[i] # per_file_findings[i] =>
                  /\ task[i] # "done"
                  /\ \A j \in 1..Len(per_file_findings) :
                        j # i => /\ per_file_findings'[j] = per_file_findings[j]
                                 /\ task'[j] = task[j]
                                 /\ task_line'[j] = task_line[j]

\* a step of the join: a step that writes one branch's list is a step of that
\* branch and leaves the other branch's list and position alone; the run's
\* collection is written only when both branches have returned
BranchStepIsLocal ==
    pc = "Validating" =>
        /\ manifest_findings' # manifest_findings =>
              (m_pc # "done" /\ m_pc' # m_pc /\ d_pc' = d_pc /\ dep_findings' = dep_findings)
        /\ dep_findings' # dep_findings =>
              (d_pc # "done" /\ m_pc' = m_pc /\ manifest_findings' = manifest_findings)
        /\ findings' # findings => (m_pc = "done" /\ d_pc = "done")

\* the configuration, the parsed manifest and the files are only read
InputsOnlyRead ==
    pc \in {"Scanning", "Validating"} =>
        (config' = config /\ cargo_manifest' = cargo_manifest /\ disk' = disk)

\* C28: during the parallel phases no state is shared for writing: every scan
\* task and each branch of the join appends only to its own list, the
\* configuration and the manifest are only read, and the run's collection is
\* written only after all tasks, respectively both branches, have returned.
C28_NoSharedMutableState ==
    [][(entry = "analyze_project") =>
          (ScanStepIsLocal /\ BranchStepIsLocal /\ InputsOnlyRead)]_vars

\* both branches are under way, each with findings of its own, and the run's
\* collection still holds only what the earlier phases put there
C28_Witness ==
    /\ entry = "analyze_project"
    /\ pc = "Validating"
    /\ m_pc \notin {"start", "done"}
    /\ d_pc \notin {"start", "done"}
    /\ manifest_findings # <<>>
    /\ dep_findings # <<>>
    /\ Len(rust_files) >= 2
    /\ \A i \in 1..2 : per_file_findings[i] # <<>>

\* the phases of a run, in the order the specification lists them: Init,
\* Collecting, the scan and the validators, Merging, (Filtering, which the
\* orchestrator does not have,) Reported, Terminal
Phase ==
    CASE pc \in {"Init", "LoadConfig"} -> 1
      [] pc = "Collecting" -> 2
      [] pc \in {"Scanning", "CheckProject", "Parsing", "Validating"} -> 3
      [] pc = "Merging" -> 4
      [] pc = "Reporting" -> 6
      [] pc \in {"Terminal", "Aborted"} -> 7

\* the orchestrator's own positions, in program order
Position ==
    CASE pc = "Init" -> 1
      [] pc = "LoadConfig" -> 2
      [] pc = "Collecting" -> 3
      [] pc = "Scanning" -> 4
      [] pc = "CheckProject" -> 5
      [] pc = "Parsing" -> 6
      [] pc = "Validating" -> 7
      [] pc = "Merging" -> 8
      [] pc = "Reporting" -> 9
      [] pc \in {"Terminal", "Aborted"} -> 10

\* a step moves no phase or position backwards, re-enters none that was left,
\* and leaves every check made at most once
ForwardOnly ==
    /\ Phase' >= Phase
    /\ pc' # pc => Position' > Position
    /\ \A c \in Checks : ran'[c] >= ran[c] /\ ran'[c] <= 1

\* C29: the phases only move forward, no check is made twice, and
\* no check starts once merging has begun.
C29_NoCheckAfterMerging ==
    [][(entry = "analyze_project") =>
          /\ ForwardOnly
          /\ ran' # ran => Phase < 4]_vars

\* the configuration file of the run exists but could not be read or parsed
ConfigFileFailed ==
    /\ entry = "analyze_project"
    /\ pc \notin {"Init", "LoadConfig"}
    /\ config_file.status \in {"unreadable", "rejected"}

\* C30: a configuration file that cannot be read or is rejected by the parser
\* never aborts the run: the run goes on under the default configuration, in
\* which every check code is enabled, the codes the file set to false
\* included, and ends with the findings of a run without configuration file.
C30_ConfigFailureFallsBackToDefault ==
    ConfigFileFailed =>
        /\ config = DefaultConfig
        /\ \A c \in CheckCodes \cup DOMAIN config_file.enabled : is_check_enabled(config, c)
        /\ pc = "Aborted" => result = "NotRustProject"
        /\ pc \notin {"Terminal", "Aborted"} => ENABLED Next
        /\ pc = "Terminal" =>
              /\ result = (IF has_blocking(findings) THEN "ProcessExit" ELSE "Ok")
              /\ findings = SameRunUnder(DefaultConfig)

\* a finished run whose configuration file was rejected and set MD001 to
\* false, with an MD001 finding all the same
C30_Witness ==
    /\ Finished
    /\ ConfigFileFailed
    /\ config_file.status = "rejected"
    /\ ~config_file.enabled["MD001"]
    /\ CountCode(findings, "MD001") >= 1

====
